---- MODULE Spec2Model ----
(***************************************************************************)
(* Session and token authentication broker of middlewared                  *)
(* (src/middlewared/middlewared/plugins/auth.py and middlewared/auth.py):  *)
(* TokenManager, Token, SessionManager, Session, the credential classes    *)
(* and the AuthService RPC methods, as a state machine.                    *)
(***************************************************************************)
EXTENDS Integers, Sequences, FiniteSets, TLC

(* ------------------------------ bounds --------------------------------- *)
\* the session slice (Spec): connections the framework hands to the broker,
\* credential objects alive at once, tokens issued, last value of the clock
NumConns == 2
MaxCreds == 2
MaxTokens == 1
MaxTime == 1
\* the token slice (SpecTok)
TokConns == 1
TokCreds == 3
TokTokens == 1
TokTime == 3
\* times one connection registers its callbacks (fresh logins on it)
\* the interleaved run
ConcConns == 1
ConcCreds == 3
ConcTokens == 1
ConcTime == 1
NumThreads == 2

RedeemConns == 2
RedeemCreds == 2
RedeemTokens == 1
RedeemTime == 2

ReloginConns == 2
ReloginCreds == 4
ReloginTokens == 1

ExpiryCreds == 3
ExpiryTime == 2

LifeCreds == 3
LifeTokens == 2
LifeTime == 2

NestedCreds == 3
NestedTokens == 2
NestedTime == 2

TermConns == 3
TermCreds == 3

DestroyCreds == 2
DestroyTokens == 2
DestroyTime == 1

ChainCreds == 3
ChainTokens == 3

\* the source ports of the interconnect check run from 0 to MaxPort
MaxPort == 65535

MaxCallbacks == 2
\* largest ttl passed to generate_token
MaxTTL == 2

TTLs == {0, MaxTTL}

(* ------------------------------ values --------------------------------- *)
\* (method, resource) pairs a credential may be asked to authorize
Calls == {"GET /pool", "POST /user"}
\* privilege allowlists handed out by the account and API-key stores
AllowLists == {{"GET /pool"}, Calls}
\* attribute mappings given to generate_token (the set of their keys)
AttrSets == {{}, {"filename"}}

None == 0

NoOrigin == [kind |-> "none", uid |-> 0, addr |-> <<>>, port |-> 0]
UnixSocketOrigin(uid) == [kind |-> "unix", uid |-> uid, addr |-> <<>>, port |-> 0]
TCPIPOrigin(addr, port) == [kind |-> "tcp", uid |-> 0, addr |-> addr, port |-> port]

Origins ==
    { UnixSocketOrigin(0), UnixSocketOrigin(1000),
      TCPIPOrigin(<<"127", "0", "0", "1">>, 40000),
      TCPIPOrigin(<<"169", "254", "10", "1">>, 40000),
      TCPIPOrigin(<<"169", "254", "10", "1">>, 1000) }

\* Origin.match of the origin classes: uid equality for a Unix socket,
\* address equality for TCP
Origin_match(mine, other) ==
    IF mine.kind = "unix" THEN mine.uid = other.uid ELSE mine.addr = other.addr

\* keys of TokenManager.tokens are the token strings; a Token object is a
\* different value that never equals a string
TokenStr(i) == <<"str", i>>
TokenObj(i) == <<"Token", i>>

(* ------------------------------ state ---------------------------------- *)
VARIABLES
    lim,        \* the bounds of the run: [conns, creds, tokens, time, threads]
    now,        \* time.monotonic()
    creds,      \* heap of the live credential objects: Seq of [kind, allow, token]
    tokobjs,    \* heap of Token objects, indexed by the token they carry
    tokens,     \* TokenManager.tokens: token string -> Token object (index)
    apps,       \* the connections: origin, authenticated flag, credential, callbacks
    sessions,   \* SessionManager.sessions: session id -> Session
    events,     \* auth.sessions events sent by the last operation
    hooked,     \* per connection: how often a credential's logout hook ran for it
    removed,    \* per connection: how many REMOVED events were sent for it
    added,      \* per connection: how many ADDED events were sent for it
    threads,    \* the calls in flight that run statement by statement
    ret         \* the last operation and what it returned

vars == <<lim, now, creds, tokobjs, tokens, apps, sessions, events, hooked, removed,
          added, threads, ret>>

\* the broker's state as one value, so that a handler and what it calls compose
St == [now |-> now, creds |-> creds, tokobjs |-> tokobjs, tokens |-> tokens,
       apps |-> apps, sessions |-> sessions, events |-> <<>>, hooked |-> hooked,
       removed |-> removed, added |-> added, threads |-> threads, val |-> "None",
       err |-> "none"]

\* op: the operation; conn: its connection; val: the kind of value returned;
\* ref: the token the operation was about; err: the error raised; calls: the
\* collaborators it called, each with its answer
Ret(op, conn, val, ref, err, calls) ==
    [op |-> op, conn |-> conn, val |-> val, ref |-> ref, err |-> err, calls |-> calls]

(* Objects nothing refers to any more are garbage: the live credentials are  *)
(* those a session, a connection or a live token refers to, the live tokens  *)
(* those in the registry, held by a live token credential or in the hands   *)
(* of a call in flight.  The heap of credentials is compacted to the live    *)
(* ones, a dead Token is blanked.                                            *)
LiveTokens(s, C) ==
    ({s.tokens[k] : k \in DOMAIN s.tokens}
        \cup {s.creds[i].token : i \in {j \in C : s.creds[j].kind = "TOKEN"}}
        \cup {s.threads[t].tok : t \in DOMAIN s.threads}
        \cup {s.threads[t].sess.token : t \in DOMAIN s.threads}) \ {None}

RECURSIVE LiveCreds(_, _)
LiveCreds(s, C) ==
    LET C2 == C \cup ({s.tokobjs[i].parent_credentials : i \in LiveTokens(s, C)} \ {None})
    IN IF C2 = C THEN C ELSE LiveCreds(s, C2)

Roots(s) ==
    {s.sessions[c].credentials : c \in DOMAIN s.sessions}
        \cup ({s.apps[c].authenticated_credentials : c \in DOMAIN s.apps} \ {None})
        \cup ({s.threads[t].cred : t \in DOMAIN s.threads} \ {None})

DeadToken == [ttl |-> 0, attributes |-> {}, match_origin |-> NoOrigin,
              parent_credentials |-> None, last_used_at |-> 0]

\* L: the live credentials, T: the live tokens
Collect(s, L, T) ==
    LET new(i) == IF i = None THEN None ELSE Cardinality({j \in L : j <= i})
    IN [s EXCEPT
          !.creds = [n \in 1..Cardinality(L) |-> s.creds[CHOOSE i \in L : new(i) = n]],
          !.tokobjs = [i \in DOMAIN s.tokobjs |->
                          IF i \in T
                          THEN [s.tokobjs[i] EXCEPT !.parent_credentials = new(@)]
                          ELSE DeadToken],
          !.sessions = [c \in DOMAIN s.sessions |->
                           [s.sessions[c] EXCEPT !.credentials = new(@)]],
          !.apps = [c \in DOMAIN s.apps |->
                       [s.apps[c] EXCEPT !.authenticated_credentials = new(@)]],
          !.threads = [t \in DOMAIN s.threads |->
                          [s.threads[t] EXCEPT !.cred = new(@)]]]

\* the operation's outcome s0 becomes the next state, r what it returned
Commit(s0, r) ==
    \E L \in {LiveCreds(s0, Roots(s0))} :
      \E s \in {Collect(s0, L, LiveTokens(s0, L))} :
        /\ lim' = lim
        /\ now' = s.now
        /\ creds' = s.creds
        /\ tokobjs' = s.tokobjs
        /\ tokens' = s.tokens
        /\ apps' = s.apps
        /\ sessions' = s.sessions
        /\ events' = s.events
        /\ hooked' = s.hooked
        /\ removed' = s.removed
        /\ added' = s.added
        /\ threads' = s.threads
        /\ ret' = r

(* a call in flight: where it is (pc), the operation, its connection or its *)
(* token id, origin and call, the credential of the session and the Token    *)
(* object it has in its hands, the credential object it has made (cred), and *)
(* how many callbacks it has yet to finish                                   *)
NoSession == [kind |-> "none", allow |-> {}, token |-> None]
Idle == [pc |-> "idle", op |-> "", conn |-> None, id |-> None, origin |-> NoOrigin,
         call |-> "", sess |-> NoSession, tok |-> None, cred |-> None, left |-> 0]

(* ------------------------------ Token ---------------------------------- *)
Token_init(ttl, attributes, match_origin, parent_credentials, t) ==
    [ttl |-> ttl, attributes |-> attributes, match_origin |-> match_origin,
     parent_credentials |-> parent_credentials, last_used_at |-> t]

\* off by one: still valid at the deadline itself
Token_is_valid_inclusive(tok, t) == t <= tok.last_used_at + tok.ttl

Token_is_valid(tok, t) == t < tok.last_used_at + tok.ttl

Token_notify_used(s, i) == [s EXCEPT !.tokobjs[i].last_used_at = s.now]

(* --------------------------- TokenManager ------------------------------ *)
\* create: generate_token(48) is a fresh string; the heap index stands for it
TokenManager_create(s, ttl, attributes, match_origin, parent_credentials) ==
    LET i == Len(s.tokobjs) + 1
        tok == Token_init(ttl, attributes, match_origin, parent_credentials, s.now)
    IN [s EXCEPT !.tokobjs = Append(s.tokobjs, tok),
                 !.tokens = (TokenStr(i) :> i) @@ s.tokens]

\* dict.pop(key): a key that is not in the dict raises
TokenManager_destroy_strict(s, key) ==
    IF key \in DOMAIN s.tokens
    THEN [s EXCEPT !.tokens = [k \in DOMAIN s.tokens \ {key} |-> s.tokens[k]]]
    ELSE [s EXCEPT !.err = "KeyError"]

\* dict.pop(key, None)
TokenManager_destroy(s, key) ==
    [s EXCEPT !.tokens = [k \in DOMAIN s.tokens \ {key} |-> s.tokens[k]]]

\* an expired token is popped but handed out one last time
TokenManager_get_returns_expired(s, id, origin) ==
    IF TokenStr(id) \notin DOMAIN s.tokens THEN [st |-> s, token |-> None]
    ELSE LET i == s.tokens[TokenStr(id)]
             tok == s.tokobjs[i]
         IN IF ~Token_is_valid(tok, s.now)
            THEN [st |-> [s EXCEPT !.tokens =
                             [k \in DOMAIN s.tokens \ {TokenStr(i)} |-> s.tokens[k]]],
                  token |-> i]
            ELSE IF tok.match_origin # NoOrigin
                    /\ (origin.kind # tok.match_origin.kind
                        \/ ~Origin_match(tok.match_origin, origin))
                 THEN [st |-> s, token |-> None]
                 ELSE [st |-> s, token |-> i]

\* the origin's kind is compared, its discriminator is not
TokenManager_get_kind_only(s, id, origin) ==
    IF TokenStr(id) \notin DOMAIN s.tokens THEN [st |-> s, token |-> None]
    ELSE LET i == s.tokens[TokenStr(id)]
             tok == s.tokobjs[i]
         IN IF ~Token_is_valid(tok, s.now)
            THEN [st |-> [s EXCEPT !.tokens =
                             [k \in DOMAIN s.tokens \ {TokenStr(i)} |-> s.tokens[k]]],
                  token |-> None]
            ELSE IF tok.match_origin # NoOrigin /\ origin.kind # tok.match_origin.kind
                 THEN [st |-> s, token |-> None]
                 ELSE [st |-> s, token |-> i]

\* get: the registry afterwards and the Token object (index) returned, or None
TokenManager_get(s, id, origin) ==
    IF TokenStr(id) \notin DOMAIN s.tokens THEN [st |-> s, token |-> None]
    ELSE LET i == s.tokens[TokenStr(id)]
             tok == s.tokobjs[i]
         IN IF ~Token_is_valid(tok, s.now)
            THEN [st |-> [s EXCEPT !.tokens =
                             [k \in DOMAIN s.tokens \ {TokenStr(i)} |-> s.tokens[k]]],
                  token |-> None]
            ELSE IF tok.match_origin # NoOrigin
                    /\ (origin.kind # tok.match_origin.kind
                        \/ ~Origin_match(tok.match_origin, origin))
                 THEN [st |-> s, token |-> None]
                 ELSE [st |-> s, token |-> i]

(* ---------------------------- credentials ------------------------------ *)
Cred(kind, allow, token) == [kind |-> kind, allow |-> allow, token |-> token]

NewCred(s, c) == [s EXCEPT !.creds = Append(s.creds, c)]

\* TokenSessionManagerCredentials.is_valid; the base class is always valid
Cred_is_valid(s, cr) ==
    IF s.creds[cr].kind = "TOKEN"
    THEN Token_is_valid(s.tokobjs[s.creds[cr].token], s.now)
    ELSE TRUE

\* the override is missing: no credential passes the use on
Cred_notify_used_base(s, cr) == s

\* TokenSessionManagerCredentials.notify_used; the base class does nothing
Cred_notify_used(s, cr) ==
    IF s.creds[cr].kind = "TOKEN" THEN Token_notify_used(s, s.creds[cr].token) ELSE s

\* the logout of a credential takes the tokens issued from it out of the
\* registry
Cred_logout_revokes_issued(s, cr) ==
    [s EXCEPT !.tokens = [k \in {j \in DOMAIN s.tokens :
                                    s.tokobjs[s.tokens[j]].parent_credentials # cr}
                            |-> s.tokens[k]]]

\* TokenSessionManagerCredentials.logout hands the Token object to destroy;
\* the base class does nothing
Cred_logout(s, cr) ==
    IF s.creds[cr].kind = "TOKEN"
    THEN TokenManager_destroy(s, TokenObj(s.creds[cr].token))
    ELSE s

RECURSIVE Cred_authorize(_, _, _)

\* the override is missing: the base class authorizes everything
TokenCred_authorize_base(s, cr, call) == TRUE

\* a token-derived credential authorizes only while its token is valid
TokenCred_authorize_while_valid(s, cr, call) ==
    /\ Token_is_valid(s.tokobjs[s.creds[cr].token], s.now)
    /\ Cred_authorize(s, s.tokobjs[s.creds[cr].token].parent_credentials, call)

TokenCred_authorize(s, cr, call) ==
    Cred_authorize(s, s.tokobjs[s.creds[cr].token].parent_credentials, call)

Cred_authorize(s, cr, call) ==
    CASE s.creds[cr].kind = "TOKEN" -> TokenCred_authorize(s, cr, call)
      [] s.creds[cr].kind \in {"UNIX_SOCKET", "LOGIN_PASSWORD", "API_KEY"} ->
            call \in s.creds[cr].allow
      [] OTHER -> TRUE

\* the loop of Token.root_credentials, from credential cr on: through the
\* token of a token-derived credential to that token's parent
RECURSIVE root_credentials_from(_, _)
root_credentials_from(s, cr) ==
    IF cr = None THEN None
    ELSE IF s.creds[cr].kind = "TOKEN"
         THEN root_credentials_from(s, s.tokobjs[s.creds[cr].token].parent_credentials)
         ELSE cr

\* the parent is returned as it is, token-derived or not
Token_root_credentials_parent(s, i) == s.tokobjs[i].parent_credentials

\* Token.root_credentials of Token object i
Token_root_credentials(s, i) == root_credentials_from(s, s.tokobjs[i].parent_credentials)

\* the subclasses of UserSessionManagerCredentials
UserCredKinds == {"UNIX_SOCKET", "LOGIN_PASSWORD"}

\* what the objects behind a credential hold besides what the model keeps:
\* the row of the API key, with its secret, and the user entry
ApiKeyRows == [id : {1}, name : {"backup"}, key : {"secret-1", "secret-2"}]
UserRows == [username : {"admin"}, privilege : {"privilege"}]

RECURSIVE dump_credentials(_, _, _, _)

\* the whole row of the API key is dumped
Cred_dump_api_key_row(s, cr, api_key, user) ==
    CASE s.creds[cr].kind = "TOKEN" ->
            [parent |-> dump_credentials(s, s.tokobjs[s.creds[cr].token].parent_credentials,
                                         api_key, user)]
      [] s.creds[cr].kind = "API_KEY" -> [api_key |-> api_key]
      [] s.creds[cr].kind \in {"UNIX_SOCKET", "LOGIN_PASSWORD"} -> [username |-> user.username]
      [] OTHER -> <<>>

\* dump() of the credential classes: of TokenSessionManagerCredentials, of
\* ApiKeySessionManagerCredentials, of UserSessionManagerCredentials and of
\* the base class
Cred_dump(s, cr, api_key, user) ==
    CASE s.creds[cr].kind = "TOKEN" ->
            [parent |-> dump_credentials(s, s.tokobjs[s.creds[cr].token].parent_credentials,
                                         api_key, user)]
      [] s.creds[cr].kind = "API_KEY" ->
            [api_key |-> [id |-> api_key.id, name |-> api_key.name]]
      [] s.creds[cr].kind \in {"UNIX_SOCKET", "LOGIN_PASSWORD"} -> [username |-> user.username]
      [] OTHER -> <<>>

\* the class name without SessionManagerCredentials, in upper snake case, is
\* the kind of the credential
dump_credentials(s, cr, api_key, user) ==
    [credentials |-> s.creds[cr].kind, credentials_data |-> Cred_dump(s, cr, api_key, user)]

(* -------------------------- SessionManager ----------------------------- *)
\* only the origin is looked at, the credential is not
is_internal_session_origin_only(s, c) ==
    s.apps[c].origin.kind = "unix" /\ s.apps[c].origin.uid = 0

is_internal_session(s, c) ==
    \/ s.apps[c].origin.kind = "unix" /\ s.apps[c].origin.uid = 0
    \/ /\ s.apps[c].authenticated_credentials # None
       /\ s.creds[s.apps[c].authenticated_credentials].kind
              \in {"ROOT_TCP_SOCKET", "TRUE_NAS_NODE"}

Event(kind, id, origin, credentials) ==
    [kind |-> kind, id |-> id, origin |-> origin, credentials |-> credentials]

send_event(s, e) ==
    [s EXCEPT !.events = Append(s.events, e),
              !.removed = IF e.kind = "REMOVED" THEN [@ EXCEPT ![e.id] = @ + 1] ELSE @,
              !.added = IF e.kind = "ADDED" THEN [@ EXCEPT ![e.id] = @ + 1] ELSE @]

\* every login makes a new Session, also on an authenticated connection
SessionManager_login_new_session(s, c, cr) ==
    LET s1 == [s EXCEPT
                 !.sessions = (c :> [credentials |-> cr, created_at |-> s.now])
                                 @@ [k \in DOMAIN s.sessions \ {c} |-> s.sessions[k]],
                 !.apps[c].authenticated = TRUE,
                 !.apps[c].authenticated_credentials = cr]
    IN IF ~is_internal_session(s1, c)
       THEN send_event(s1, Event("ADDED", c, s1.apps[c].origin, s1.creds[cr].kind))
       ELSE s1

\* a re-login writes the new credential into the session's credential object
SessionManager_login_in_place(s, c, cr) ==
    IF s.apps[c].authenticated
    THEN IF c \notin DOMAIN s.sessions
         THEN [s EXCEPT !.err = "KeyError"]
         ELSE [s EXCEPT !.creds[s.sessions[c].credentials] = s.creds[cr]]
    ELSE LET s1 == [s EXCEPT
                      !.sessions = (c :> [credentials |-> cr, created_at |-> s.now])
                                      @@ s.sessions,
                      !.apps[c].authenticated = TRUE,
                      !.apps[c].authenticated_credentials = cr,
                      !.apps[c].on_message = @ + 1,
                      !.apps[c].on_close = @ + 1]
         IN IF ~is_internal_session(s1, c)
            THEN send_event(s1, Event("ADDED", c, s1.apps[c].origin, s1.creds[cr].kind))
            ELSE s1

\* a re-login logs the connection out and in again
SessionManager_login_logs_out_first(s, c, cr) ==
    LET out == Cred_logout(
                   [s EXCEPT !.sessions = [k \in DOMAIN s.sessions \ {c} |-> s.sessions[k]],
                             !.hooked[c] = @ + 1],
                   s.sessions[c].credentials)
        s0 == IF s.apps[c].authenticated /\ c \in DOMAIN s.sessions
              THEN IF ~is_internal_session(out, c)
                   THEN send_event(out, Event("REMOVED", c, NoOrigin, ""))
                   ELSE out
              ELSE s
        s1 == [s0 EXCEPT
                 !.sessions = (c :> [credentials |-> cr, created_at |-> s.now])
                                 @@ s0.sessions,
                 !.apps[c].authenticated = TRUE,
                 !.apps[c].authenticated_credentials = cr,
                 !.apps[c].on_message = @ + 1,
                 !.apps[c].on_close = @ + 1]
    IN IF ~is_internal_session(s1, c)
       THEN send_event(s1, Event("ADDED", c, s1.apps[c].origin, s1.creds[cr].kind))
       ELSE s1

\* a re-login replaces the session's credential and leaves the connection's
SessionManager_login_session_only(s, c, cr) ==
    IF s.apps[c].authenticated
    THEN IF c \notin DOMAIN s.sessions
         THEN [s EXCEPT !.err = "KeyError"]
         ELSE [s EXCEPT !.sessions[c].credentials = cr]
    ELSE LET s1 == [s EXCEPT
                      !.sessions = (c :> [credentials |-> cr, created_at |-> s.now])
                                      @@ s.sessions,
                      !.apps[c].authenticated = TRUE,
                      !.apps[c].authenticated_credentials = cr,
                      !.apps[c].on_message = @ + 1,
                      !.apps[c].on_close = @ + 1]
         IN IF ~is_internal_session(s1, c)
            THEN send_event(s1, Event("ADDED", c, s1.apps[c].origin, s1.creds[cr].kind))
            ELSE s1

SessionManager_login(s, c, cr) ==
    IF s.apps[c].authenticated
    THEN IF c \notin DOMAIN s.sessions
         THEN [s EXCEPT !.err = "KeyError"]
         ELSE [s EXCEPT !.sessions[c].credentials = cr,
                        !.apps[c].authenticated_credentials = cr]
    ELSE LET s1 == [s EXCEPT
                      !.sessions = (c :> [credentials |-> cr, created_at |-> s.now])
                                      @@ s.sessions,
                      !.apps[c].authenticated = TRUE,
                      !.apps[c].authenticated_credentials = cr,
                      !.apps[c].on_message = @ + 1,
                      !.apps[c].on_close = @ + 1]
         IN IF ~is_internal_session(s1, c)
            THEN send_event(s1, Event("ADDED", c, s1.apps[c].origin, s1.creds[cr].kind))
            ELSE s1

\* the pop has no default: a logout without a session raises
SessionManager_logout_strict(s, c) ==
    IF c \notin DOMAIN s.sessions
    THEN [s EXCEPT !.err = "KeyError"]
    ELSE LET s1 == [s EXCEPT !.sessions = [k \in DOMAIN s.sessions \ {c} |-> s.sessions[k]]]
             s3 == Cred_logout([s1 EXCEPT !.hooked[c] = @ + 1], s.sessions[c].credentials)
             s2 == IF ~is_internal_session(s3, c)
                   THEN send_event(s3, Event("REMOVED", c, NoOrigin, ""))
                   ELSE s3
         IN [s2 EXCEPT !.apps[c].authenticated = FALSE]

SessionManager_logout(s, c) ==
    LET s1 == [s EXCEPT !.sessions = [k \in DOMAIN s.sessions \ {c} |-> s.sessions[k]]]
        s2 == IF c \in DOMAIN s.sessions
              THEN LET s3 == Cred_logout([s1 EXCEPT !.hooked[c] = @ + 1],
                                          s.sessions[c].credentials)
                   IN IF ~is_internal_session(s3, c)
                      THEN send_event(s3, Event("REMOVED", c, NoOrigin, ""))
                      ELSE s3
              ELSE s1
    IN [s2 EXCEPT !.apps[c].authenticated = FALSE]

\* a session whose credential is no longer valid is left in place
SessionManager_app_on_message_keeps_session(s, c) ==
    IF c \notin DOMAIN s.sessions
    THEN [s EXCEPT !.apps[c].authenticated = FALSE]
    ELSE IF ~Cred_is_valid(s, s.sessions[c].credentials)
         THEN s
         ELSE Cred_notify_used(s, s.sessions[c].credentials)

SessionManager_app_on_message(s, c) ==
    IF c \notin DOMAIN s.sessions
    THEN [s EXCEPT !.apps[c].authenticated = FALSE]
    ELSE IF ~Cred_is_valid(s, s.sessions[c].credentials)
         THEN SessionManager_logout(s, c)
         ELSE Cred_notify_used(s, s.sessions[c].credentials)

\* the close callback does not log out
SessionManager_app_on_close_nothing(s, c) == s

SessionManager_app_on_close(s, c) == SessionManager_logout(s, c)

\* the framework runs a callback once for every time it was registered
RECURSIVE RunCallbacks(_, _, _, _)
RunCallbacks(s, c, name, n) ==
    IF n = 0 THEN s
    ELSE RunCallbacks(IF name = "on_message"
                      THEN SessionManager_app_on_message(s, c)
                      ELSE SessionManager_app_on_close(s, c),
                      c, name, n - 1)

(* ------------------------- session listing ---------------------------- *)
\* Session.dump of the session of connection c
Session_dump(s, c, api_key, user) ==
    LET d == dump_credentials(s, s.sessions[c].credentials, api_key, user)
    IN [origin |-> s.apps[c].origin, credentials |-> d.credentials,
        credentials_data |-> d.credentials_data,
        created_at |-> s.sessions[c].created_at]

\* one entry of AuthService.sessions, as seen by the connection app
SessionEntry(s, app, id) ==
    [id |-> id, current |-> (app = id), internal |-> is_internal_session(s, id),
     origin |-> s.apps[id].origin,
     credentials |-> s.creds[s.sessions[id].credentials].kind,
     created_at |-> s.sessions[id].created_at]

\* the sessions are listed by id, whatever their creation time
SortedSessions_by_id(s, ids) ==
    [n \in 1..Cardinality(ids) |-> CHOOSE i \in ids : Cardinality({j \in ids : j < i}) = n - 1]

\* sorted(sessions.items(), key=created_at); the order of the dict among
\* sessions created at the same time is not kept: they are listed by id
RECURSIVE SortedSessions(_, _)
SortedSessions(s, ids) ==
    IF ids = {} THEN <<>>
    ELSE LET m == CHOOSE i \in ids : \A j \in ids :
                     \/ s.sessions[i].created_at < s.sessions[j].created_at
                     \/ s.sessions[i].created_at = s.sessions[j].created_at /\ i <= j
         IN <<m>> \o SortedSessions(s, ids \ {m})

\* filter_list with filters of the shape [field, "=", value]: the rows that
\* satisfy every filter, in their order
filter_list(rows, filters) ==
    LET keep(e) == \A f \in filters : e[f[1]] = f[3]
    IN SelectSeq(rows, keep)

AuthService_sessions(s, app, filters) ==
    LET ids == SortedSessions(s, DOMAIN s.sessions)
        all == [n \in 1..Len(ids) |-> SessionEntry(s, app, ids[n])]
    IN filter_list(all, filters)

(* ------------------------ connection origin ---------------------------- *)
\* port 1024 itself is not privileged
is_ha_connection_below_1024(remote_addr, remote_port) ==
    remote_port < 1024
    /\ remote_addr \in {<<"169", "254", "10", "1">>, <<"169", "254", "10", "2">>}

is_ha_connection(remote_addr, remote_port) ==
    remote_port <= 1024
    /\ remote_addr \in {<<"169", "254", "10", "1">>, <<"169", "254", "10", "2">>}

\* origin.addr.startswith('127.') or origin.addr == '::1'
IsLoopback(addr) == (Len(addr) > 1 /\ addr[1] = "127") \/ addr = <<"::1">>

\* what the account store answers for a Unix-socket uid, and what the peer
\* process lookup answers for a loopback TCP endpoint
AccountAnswers == {"MatchNotFound", "None", "user"}
PeerAnswers == {"None", "NoSuchProcess", "euid0", "euid1000"}

\* MatchNotFound and NoSuchProcess are not caught
check_permission_raises(s, c, acct, allow, peer) ==
    LET origin == s.apps[c].origin
    IN IF origin.kind = "unix"
       THEN IF origin.uid = 0
            THEN SessionManager_login(NewCred(s, Cred("UNIX_SOCKET", Calls, None)),
                                      c, Len(s.creds) + 1)
            ELSE IF acct = "MatchNotFound" THEN [s EXCEPT !.err = "MatchNotFound"]
                 ELSE IF acct = "None" THEN s
                 ELSE SessionManager_login(NewCred(s, Cred("UNIX_SOCKET", allow, None)),
                                           c, Len(s.creds) + 1)
       ELSE IF origin.kind = "tcp"
            THEN IF ~IsLoopback(origin.addr) THEN s
                 ELSE IF peer = "euid0"
                      THEN SessionManager_login(
                               NewCred(s, Cred("ROOT_TCP_SOCKET", {}, None)),
                               c, Len(s.creds) + 1)
                      ELSE IF peer = "NoSuchProcess" THEN [s EXCEPT !.err = "NoSuchProcess"]
                      ELSE s
            ELSE s

\* the effective uid of the loopback peer is not looked at
check_permission_any_peer(s, c, acct, allow, peer) ==
    LET origin == s.apps[c].origin
    IN IF origin.kind = "unix"
       THEN IF origin.uid = 0
            THEN SessionManager_login(NewCred(s, Cred("UNIX_SOCKET", Calls, None)),
                                      c, Len(s.creds) + 1)
            ELSE IF acct = "MatchNotFound" THEN s
                 ELSE IF acct = "None" THEN s
                 ELSE SessionManager_login(NewCred(s, Cred("UNIX_SOCKET", allow, None)),
                                           c, Len(s.creds) + 1)
       ELSE IF origin.kind = "tcp"
            THEN IF ~IsLoopback(origin.addr) THEN s
                 ELSE IF peer \in {"euid0", "euid1000"}
                      THEN SessionManager_login(
                               NewCred(s, Cred("ROOT_TCP_SOCKET", {}, None)),
                               c, Len(s.creds) + 1)
                      ELSE s
            ELSE s

check_permission(s, c, acct, allow, peer) ==
    LET origin == s.apps[c].origin
    IN IF origin.kind = "unix"
       THEN IF origin.uid = 0
            THEN SessionManager_login(NewCred(s, Cred("UNIX_SOCKET", Calls, None)),
                                      c, Len(s.creds) + 1)
            ELSE IF acct = "MatchNotFound" THEN s
                 ELSE IF acct = "None" THEN s
                 ELSE SessionManager_login(NewCred(s, Cred("UNIX_SOCKET", allow, None)),
                                           c, Len(s.creds) + 1)
       ELSE IF origin.kind = "tcp"
            THEN IF ~IsLoopback(origin.addr) THEN s
                 ELSE IF peer = "euid0"
                      THEN SessionManager_login(
                               NewCred(s, Cred("ROOT_TCP_SOCKET", {}, None)),
                               c, Len(s.creds) + 1)
                      ELSE s
            ELSE s

\* the HA interconnect hook: a peer recognised by is_ha_connection is given
\* the node credential
ha_permission(s, c) ==
    LET origin == s.apps[c].origin
    IN IF s.apps[c].authenticated THEN s
       ELSE IF origin.kind = "tcp" /\ is_ha_connection(origin.addr, origin.port)
            THEN SessionManager_login(NewCred(s, Cred("TRUE_NAS_NODE", {}, None)),
                                      c, Len(s.creds) + 1)
            ELSE s

(* ------------------------------ actions -------------------------------- *)
NewApp == [state |-> "new", origin |-> NoOrigin, authenticated |-> FALSE,
           authenticated_credentials |-> None, on_message |-> 0, on_close |-> 0]

Conns == DOMAIN apps
TokenIds == 1..lim.tokens

\* a closed connection: the framework has dropped the app object
ClosedApp(a) == [NewApp EXCEPT !.state = "closed", !.on_message = a.on_message,
                               !.on_close = a.on_close]

InitWith(l) ==
    /\ lim = l
    /\ now = 0
    /\ creds = <<>>
    /\ tokobjs = <<>>
    /\ tokens = [k \in {} |-> 0]
    /\ apps = [c \in 1..l.conns |-> NewApp]
    /\ sessions = [k \in {} |-> 0]
    /\ events = <<>>
    /\ hooked = [c \in 1..l.conns |-> 0]
    /\ removed = [c \in 1..l.conns |-> 0]
    /\ added = [c \in 1..l.conns |-> 0]
    /\ threads = [t \in 1..l.threads |-> Idle]
    /\ ret = Ret("init", 0, "None", None, "none", {})

\* room for one more credential object, and for one more registration of the
\* connection's callbacks
CanLogin(c) ==
    /\ Len(creds) < lim.creds
    /\ ~apps[c].authenticated => apps[c].on_close < MaxCallbacks

\* a connection arrives and the core.on_connect hooks run on it
core_on_connect(c, o, acct, allow, peer) ==
    /\ apps[c].state = "new"
    /\ \A d \in Conns : d < c => apps[d].state # "new"
    /\ Len(creds) < lim.creds
    /\ \E s1 \in {ha_permission(
                      check_permission(
                          [St EXCEPT !.apps[c].state = "open", !.apps[c].origin = o],
                          c, acct, allow, peer), c)} :
          Commit(s1, Ret("core.on_connect", c, "None", None, s1.err, {}))

\* the OTP is only verified once the password check has passed
login_verify_after_password(c, user_ok, allow, enabled, otp_ok) ==
    /\ apps[c].state = "open"
    /\ CanLogin(c)
    /\ LET user == IF user_ok /\ ~(enabled /\ ~otp_ok) THEN "user" ELSE "None"
           calls == {<<"auth.authenticate", user_ok>>, <<"auth.twofactor.config", enabled>>}
                       \cup (IF enabled /\ user_ok
                             THEN {<<"auth.twofactor.verify", otp_ok>>} ELSE {})
       IN IF user # "None"
          THEN \E s1 \in {SessionManager_login(
                               NewCred(St, Cred("LOGIN_PASSWORD", allow, None)),
                               c, Len(creds) + 1)} :
                 Commit(s1, Ret("login", c, "True", None, s1.err, calls))
          ELSE Commit(St, Ret("login", c, "False", None, "none", calls))

\* a failed attempt ends the session the connection had
login_logs_out_on_failure(c, user_ok, allow, enabled, otp_ok) ==
    /\ apps[c].state = "open"
    /\ CanLogin(c)
    /\ LET user == IF user_ok /\ ~(enabled /\ ~otp_ok) THEN "user" ELSE "None"
           calls == {<<"auth.authenticate", user_ok>>, <<"auth.twofactor.config", enabled>>}
                       \cup (IF enabled THEN {<<"auth.twofactor.verify", otp_ok>>} ELSE {})
       IN IF user # "None"
          THEN \E s1 \in {SessionManager_login(
                               NewCred(St, Cred("LOGIN_PASSWORD", allow, None)),
                               c, Len(creds) + 1)} :
                 Commit(s1, Ret("login", c, "True", None, s1.err, calls))
          ELSE Commit(SessionManager_logout(St, c),
                      Ret("login", c, "False", None, "none", calls))

\* AuthService.login
login(c, user_ok, allow, enabled, otp_ok) ==
    /\ apps[c].state = "open"
    /\ CanLogin(c)
    /\ LET user == IF user_ok /\ ~(enabled /\ ~otp_ok) THEN "user" ELSE "None"
           calls == {<<"auth.authenticate", user_ok>>, <<"auth.twofactor.config", enabled>>}
                       \cup (IF enabled THEN {<<"auth.twofactor.verify", otp_ok>>} ELSE {})
       IN IF user # "None"
          THEN \E s1 \in {SessionManager_login(
                               NewCred(St, Cred("LOGIN_PASSWORD", allow, None)),
                               c, Len(creds) + 1)} :
                 Commit(s1, Ret("login", c, "True", None, s1.err, calls))
          ELSE Commit(St, Ret("login", c, "False", None, "none", calls))

\* AuthService.login_with_api_key
login_with_api_key(c, key_ok, allow) ==
    /\ apps[c].state = "open"
    /\ CanLogin(c)
    /\ LET calls == {<<"api_key.authenticate", key_ok>>}
       IN IF key_ok
          THEN \E s1 \in {SessionManager_login(
                               NewCred(St, Cred("API_KEY", allow, None)),
                               c, Len(creds) + 1)} :
                 Commit(s1, Ret("login_with_api_key", c, "True", None, s1.err, calls))
          ELSE Commit(St, Ret("login_with_api_key", c, "False", None, "none", calls))

\* the token's attributes are not looked at
login_with_token_any_attributes(c, id) ==
    /\ apps[c].state = "open"
    /\ \E g \in {TokenManager_get(St, id, apps[c].origin)} :
          IF g.token = None
          THEN Commit(g.st, Ret("login_with_token", c, "False", id, "none", {}))
          ELSE /\ CanLogin(c)
               /\ \E s1 \in {SessionManager_login(
                                   NewCred(g.st, Cred("TOKEN", {}, g.token)),
                                   c, Len(creds) + 1)} :
                     Commit(s1, Ret("login_with_token", c, "True", g.token, s1.err, {}))

\* AuthService.login_with_token
login_with_token(c, id) ==
    /\ apps[c].state = "open"
    /\ \E g \in {TokenManager_get(St, id, apps[c].origin)} :
          IF g.token = None
          THEN Commit(g.st, Ret("login_with_token", c, "False", id, "none", {}))
          ELSE IF g.st.tokobjs[g.token].attributes # {}
               THEN Commit(g.st, Ret("login_with_token", c, "None", id, "none", {}))
               ELSE /\ CanLogin(c)
                    /\ \E s1 \in {SessionManager_login(
                                        NewCred(g.st, Cred("TOKEN", {}, g.token)),
                                        c, Len(creds) + 1)} :
                          Commit(s1, Ret("login_with_token", c, "True", g.token,
                                         s1.err, {}))

\* AuthService.logout
logout(c) ==
    /\ apps[c].state = "open"
    /\ \E s1 \in {SessionManager_logout(St, c)} :
          Commit(s1, Ret("logout", c, "True", None, s1.err, {}))

DefaultTTL == 600
TtlArgs == {[null |-> TRUE, v |-> 0]} \cup {[null |-> FALSE, v |-> t] : t \in TTLs}

\* the check of app.authenticated is missing
generate_token_unchecked(c, ttl, attrs, match_origin) ==
    /\ apps[c].state = "open"
    /\ Len(tokobjs) < lim.tokens
    /\ \E s1 \in {TokenManager_create(
                        St, IF ttl.null THEN DefaultTTL ELSE ttl.v, attrs,
                        IF match_origin THEN apps[c].origin ELSE NoOrigin,
                        apps[c].authenticated_credentials)} :
          Commit(s1, Ret("generate_token", c, "token", Len(s1.tokobjs), "none", {}))

\* AuthService.generate_token
generate_token(c, ttl, attrs, match_origin) ==
    /\ apps[c].state = "open"
    /\ IF ~apps[c].authenticated
       THEN Commit(St, Ret("generate_token", c, "error", None, "CallError", {}))
       ELSE /\ Len(tokobjs) < lim.tokens
            /\ \E s1 \in {TokenManager_create(
                                St, IF ttl.null THEN DefaultTTL ELSE ttl.v, attrs,
                                IF match_origin THEN apps[c].origin ELSE NoOrigin,
                                apps[c].authenticated_credentials)} :
                  Commit(s1, Ret("generate_token", c, "token", Len(s1.tokobjs),
                                 "none", {}))

\* the parent credential is not asked to authorize the call
get_token_for_action_unauthorized(id, origin, call) ==
    \E g \in {TokenManager_get(St, id, origin)} :
      LET r(val, ref) == Ret("get_token_for_action", 0, val, ref, "none", {})
      IN IF g.token = None THEN Commit(g.st, r("None", id))
         ELSE IF g.st.tokobjs[g.token].attributes # {} THEN Commit(g.st, r("None", id))
         ELSE Commit(g.st, r("credentials", id))

\* AuthService.get_token_for_action
get_token_for_action(id, origin, call) ==
    \E g \in {TokenManager_get(St, id, origin)} :
      LET r(val, ref) == Ret("get_token_for_action", 0, val, ref, "none", {})
      IN IF g.token = None THEN Commit(g.st, r("None", id))
         ELSE IF g.st.tokobjs[g.token].attributes # {} THEN Commit(g.st, r("None", id))
         ELSE IF ~Cred_authorize(g.st, g.st.tokobjs[g.token].parent_credentials, call)
              THEN Commit(g.st, r("None", id))
              ELSE Commit(g.st, r("credentials", id))

\* the origin of the request is not compared: the token is looked up from
\* the origin it is locked to
get_token_for_shell_application_any_origin(id, origin, web_shell) ==
    \E g \in {TokenManager_get(St, id,
                  IF TokenStr(id) \in DOMAIN tokens
                  THEN tokobjs[tokens[TokenStr(id)]].match_origin ELSE origin)} :
      LET r(val) == Ret("get_token_for_shell_application", 0, val, id, "none", {})
      IN IF g.token = None THEN Commit(g.st, r("None"))
         ELSE IF g.st.tokobjs[g.token].attributes # {} THEN Commit(g.st, r("None"))
         ELSE IF Token_root_credentials(g.st, g.token) = None THEN Commit(g.st, r("None"))
         ELSE IF g.st.creds[Token_root_credentials(g.st, g.token)].kind \notin UserCredKinds
              THEN Commit(g.st, r("None"))
         ELSE IF ~web_shell THEN Commit(g.st, r("None"))
         ELSE Commit(g.st, r("username"))

\* AuthService.get_token_for_shell_application; web_shell is the privilege
\* recorded in the user entry of the root credential
get_token_for_shell_application(id, origin, web_shell) ==
    \E g \in {TokenManager_get(St, id, origin)} :
      LET r(val) == Ret("get_token_for_shell_application", 0, val, id, "none", {})
      IN IF g.token = None THEN Commit(g.st, r("None"))
         ELSE IF g.st.tokobjs[g.token].attributes # {} THEN Commit(g.st, r("None"))
         ELSE IF Token_root_credentials(g.st, g.token) = None THEN Commit(g.st, r("None"))
         ELSE IF g.st.creds[Token_root_credentials(g.st, g.token)].kind \notin UserCredKinds
              THEN Commit(g.st, r("None"))
         ELSE IF ~web_shell THEN Commit(g.st, r("None"))
         ELSE Commit(g.st, r("username"))

\* a message arrives on the connection: its on_message callbacks run
on_message(c) ==
    /\ apps[c].state = "open"
    /\ \E s1 \in {RunCallbacks(St, c, "on_message", apps[c].on_message)} :
          Commit(s1, Ret("on_message", c, "None", None, s1.err, {}))

\* the connection closes: its on_close callbacks run
on_close(c) ==
    /\ apps[c].state \in {"open", "closing"}
    /\ \E s1 \in {RunCallbacks(St, c, "on_close", apps[c].on_close)} :
          Commit([s1 EXCEPT !.apps[c] = ClosedApp(@)],
                 Ret("on_close", c, "None", None, s1.err, {}))

\* session.app.response.close(): the transport of the connection is closed
\* (the framework runs its on_close callbacks afterwards), or the close raises
response_close(s, id, fail) ==
    IF fail THEN [s EXCEPT !.err = "Exception"]
    ELSE [s EXCEPT !.apps[id].state = "closing"]

\* AuthService.terminate_session
terminate_session(id, fail) ==
    IF id \notin DOMAIN sessions
    THEN Commit(St, Ret("terminate_session", 0, "False", id, "none", {}))
    ELSE \E s1 \in {response_close(St, id, fail)} :
           Commit(s1, Ret("terminate_session", 0,
                          IF s1.err = "none" THEN "None" ELSE "error", id, s1.err, {}))

\* the loop of terminate_other_sessions over the sessions ids, none of them
\* the caller's or internal: errors collects the ids whose close raised, one
\* line of the message each
RECURSIVE terminate_each(_, _, _, _)
terminate_each(s, ids, fails, errors) ==
    IF ids = {} THEN [st |-> s, errors |-> errors]
    ELSE LET id == CHOOSE i \in ids : \A j \in ids : i <= j
             s1 == response_close(s, id, id \in fails)
         IN IF s1.err = "none"
            THEN terminate_each(s1, ids \ {id}, fails, errors)
            ELSE terminate_each(s, ids \ {id}, fails, errors \cup {id})

\* the first close that raises ends the loop
terminate_other_sessions_until_failure(c, fails) ==
    /\ apps[c].state = "open"
    /\ apps[c].authenticated
    /\ LET ids == {d \in DOMAIN sessions : d # c /\ ~is_internal_session(St, d)}
           bad == ids \cap fails
           upto == IF bad = {} THEN ids
                   ELSE {d \in ids : \A b \in bad : d <= b}
       IN \E r \in {terminate_each(St, upto, fails, {})} :
            IF r.errors = {}
            THEN Commit(r.st, Ret("terminate_other_sessions", c, "None", {}, "none", {}))
            ELSE Commit(r.st, Ret("terminate_other_sessions", c, "error", r.errors,
                                  "CallError", {}))

\* AuthService.terminate_other_sessions; fails: the connections whose close
\* raises
terminate_other_sessions(c, fails) ==
    /\ apps[c].state = "open"
    /\ apps[c].authenticated
    /\ LET ids == {d \in DOMAIN sessions : d # c /\ ~is_internal_session(St, d)}
       IN \E r \in {terminate_each(St, ids, fails, {})} :
            IF r.errors = {}
            THEN Commit(r.st, Ret("terminate_other_sessions", c, "None", {}, "none", {}))
            ELSE Commit(r.st, Ret("terminate_other_sessions", c, "error", r.errors,
                                  "CallError", {}))

\* AuthService.get_token: the attributes of tokens[token_id], or None on
\* KeyError
get_token(id) ==
    IF TokenStr(id) \in DOMAIN tokens
    THEN Commit(St, Ret("get_token", 0, "attributes", id, "none", {}))
    ELSE Commit(St, Ret("get_token", 0, "None", id, "none", {}))

\* TokenManager.destroy is called with a key
destroy(key) ==
    \E s1 \in {TokenManager_destroy(St, key)} :
      Commit(s1, Ret("destroy", 0, "None", key, s1.err, {}))

\* the framework asks the connection's credential to authorize a call
authorize(c, call) ==
    /\ apps[c].state = "open"
    /\ apps[c].authenticated
    /\ Commit(St, Ret("authorize", c, IF Cred_authorize(St, apps[c].authenticated_credentials, call)
                      THEN "True" ELSE "False",
                      None, "none", {}))

\* the permissions behind a user or API-key credential that a token was issued
\* from change
set_allowlist(cr, allow) ==
    /\ creds[cr].kind \in {"UNIX_SOCKET", "LOGIN_PASSWORD", "API_KEY"}
    /\ \E k \in DOMAIN tokens : tokobjs[tokens[k]].parent_credentials = cr
    /\ creds[cr].allow # allow
    /\ Commit([St EXCEPT !.creds[cr].allow = allow],
              Ret("set_allowlist", 0, "None", None, "none", {}))

\* time.monotonic() advances
Tick ==
    /\ now < lim.time
    /\ Commit([St EXCEPT !.now = now + 1], Ret("tick", 0, "None", None, "none", {}))

(* Sessions: connections from every origin, the three logins, logout, the  *)
(* per-connection callbacks and short-lived plain tokens.                   *)
Next ==
    \/ \E c \in Conns, o \in Origins, acct \in AccountAnswers, peer \in PeerAnswers :
          core_on_connect(c, o, acct, Calls, peer)
    \/ \E c \in Conns, user_ok \in BOOLEAN, enabled \in BOOLEAN, otp_ok \in BOOLEAN :
          login(c, user_ok, Calls, enabled, otp_ok)
    \/ \E c \in Conns, key_ok \in BOOLEAN : login_with_api_key(c, key_ok, Calls)
    \/ \E c \in Conns, id \in TokenIds : login_with_token(c, id)
    \/ \E c \in Conns : logout(c)
    \/ \E c \in Conns : generate_token(c, [null |-> FALSE, v |-> 1], {}, FALSE)
    \/ \E c \in Conns : on_message(c)
    \/ \E c \in Conns : on_close(c)
    \/ Tick

Init == InitWith([conns |-> NumConns, creds |-> MaxCreds, tokens |-> MaxTokens,
                  time |-> MaxTime, threads |-> 0])

Spec == Init /\ [][Next]_vars

(* Tokens: connections that log in with a password, tokens of every shape,  *)
(* redemption from every origin, authorization and permission changes.      *)
TokOrigins == {UnixSocketOrigin(1000), TCPIPOrigin(<<"169", "254", "10", "1">>, 40000)}

NextTok ==
    \/ \E c \in Conns, o \in TokOrigins :
          core_on_connect(c, o, "MatchNotFound", {}, "None")
    \/ \E c \in Conns : login(c, TRUE, {"GET /pool"}, FALSE, FALSE)
    \/ \E c \in Conns, id \in TokenIds : login_with_token(c, id)
    \/ \E c \in Conns : logout(c)
    \/ \E c \in Conns, ttl \in TtlArgs, attrs \in AttrSets, mo \in BOOLEAN :
          generate_token(c, ttl, attrs, mo)
    \/ \E id \in TokenIds, o \in Origins, call \in Calls : get_token_for_action(id, o, call)
    \/ \E c \in Conns : on_message(c)
    \/ \E c \in Conns, call \in Calls : authorize(c, call)
    \/ \E cr \in DOMAIN creds, allow \in AllowLists : set_allowlist(cr, allow)
    \/ Tick

InitTok == InitWith([conns |-> TokConns, creds |-> TokCreds, tokens |-> TokTokens,
                     time |-> TokTime, threads |-> 0])

SpecTok == InitTok /\ [][NextTok]_vars

(* Redemption: two connections from different origins, password and API-key *)
(* logins, tokens of every shape and the three operations that redeem one.  *)
NextRedeem ==
    \/ \E c \in Conns, o \in TokOrigins :
          core_on_connect(c, o, "MatchNotFound", {}, "None")
    \/ \E c \in Conns : login(c, TRUE, Calls, FALSE, FALSE)
    \/ \E c \in Conns : login_with_api_key(c, TRUE, Calls)
    \/ \E c \in Conns, id \in TokenIds : login_with_token(c, id)
    \/ \E c \in Conns, ttl \in TtlArgs, attrs \in AttrSets, mo \in BOOLEAN :
          generate_token(c, ttl, attrs, mo)
    \/ \E id \in TokenIds, o \in Origins : get_token_for_action(id, o, "GET /pool")
    \/ \E id \in TokenIds, o \in Origins, web_shell \in BOOLEAN :
          get_token_for_shell_application(id, o, web_shell)
    \/ Tick

InitRedeem == InitWith([conns |-> RedeemConns, creds |-> RedeemCreds,
                        tokens |-> RedeemTokens, time |-> RedeemTime, threads |-> 0])

SpecRedeem == InitRedeem /\ [][NextRedeem]_vars

(* Destruction and inspection: one connection, tokens of every ttl, destroy *)
(* called with token strings, issued or not, and with Token objects, and    *)
(* get_token.                                                               *)
DestroyKeys == {TokenStr(i) : i \in 1..DestroyTokens} \cup {TokenObj(i) : i \in 1..DestroyTokens}

NextDestroy ==
    \/ \E c \in Conns : core_on_connect(c, UnixSocketOrigin(1000), "None", Calls, "None")
    \/ \E c \in Conns : login(c, TRUE, Calls, FALSE, FALSE)
    \/ \E c \in Conns, ttl \in TtlArgs, attrs \in AttrSets :
          generate_token(c, ttl, attrs, FALSE)
    \/ \E id \in TokenIds, o \in TokOrigins : get_token_for_action(id, o, "GET /pool")
    \/ \E key \in DestroyKeys : destroy(key)
    \/ \E id \in TokenIds : get_token(id)
    \/ Tick

InitDestroy == InitWith([conns |-> 1, creds |-> DestroyCreds, tokens |-> DestroyTokens,
                         time |-> DestroyTime, threads |-> 0])

SpecDestroy == InitDestroy /\ [][NextDestroy]_vars

(* Chains: one connection that logs in with a password or an API key, logs  *)
(* in with the tokens it issued and issues tokens from those sessions.      *)
NextChain ==
    \/ \E c \in Conns : core_on_connect(c, UnixSocketOrigin(1000), "None", Calls, "None")
    \/ \E c \in Conns : login(c, TRUE, Calls, FALSE, FALSE)
    \/ \E c \in Conns : login_with_api_key(c, TRUE, Calls)
    \/ \E c \in Conns, id \in TokenIds : login_with_token(c, id)
    \/ \E c \in Conns : logout(c)
    \/ \E c \in Conns : generate_token(c, [null |-> TRUE, v |-> 0], {}, FALSE)

InitChain == InitWith([conns |-> 1, creds |-> ChainCreds, tokens |-> ChainTokens,
                       time |-> 0, threads |-> 0])

SpecChain == InitChain /\ [][NextChain]_vars

(* Termination: three connections, internal and not, password logins, the   *)
(* two terminate operations and the close of a connection.                  *)
TermOrigins ==
    { UnixSocketOrigin(0),
      TCPIPOrigin(<<"127", "0", "0", "1">>, 40000),
      TCPIPOrigin(<<"169", "254", "10", "1">>, 1000) }

NextTerm ==
    \/ \E c \in Conns, o \in TermOrigins, peer \in {"euid0", "euid1000"} :
          core_on_connect(c, o, "None", Calls, peer)
    \/ \E c \in Conns : login(c, TRUE, Calls, FALSE, FALSE)
    \/ \E id \in Conns, fail \in BOOLEAN : terminate_session(id, fail)
    \/ \E c \in Conns, fails \in SUBSET Conns : terminate_other_sessions(c, fails)
    \/ \E c \in Conns : on_close(c)

InitTerm == InitWith([conns |-> TermConns, creds |-> TermCreds,
                      tokens |-> 0, time |-> 0, threads |-> 0])

SpecTerm == InitTerm /\ [][NextTerm]_vars

\* the framework delivers the close of a connection whose transport was
\* closed: its on_close callbacks do run
SpecTermLive ==
    /\ InitTerm /\ [][NextTerm]_vars
    /\ \A c \in 1..TermConns : WF_vars(apps[c].state = "closing" /\ on_close(c))

(* Re-login: two connections, one of them logged in when it connects, that *)
(* log in again and again with a password, an API key or a token they       *)
(* issued, and log out.                                                      *)
ReloginOrigins ==
    { UnixSocketOrigin(1000),
      TCPIPOrigin(<<"127", "0", "0", "1">>, 40000),
      TCPIPOrigin(<<"169", "254", "10", "1">>, 40000) }

NextRelogin ==
    \/ \E c \in Conns, o \in ReloginOrigins : core_on_connect(c, o, "user", Calls, "euid0")
    \/ \E c \in Conns : login(c, TRUE, Calls, FALSE, FALSE)
    \/ \E c \in Conns : login_with_api_key(c, TRUE, Calls)
    \/ \E c \in Conns, id \in TokenIds : login_with_token(c, id)
    \/ \E c \in Conns : logout(c)
    \/ \E c \in Conns : generate_token(c, [null |-> TRUE, v |-> 0], {}, FALSE)

InitRelogin == InitWith([conns |-> ReloginConns, creds |-> ReloginCreds,
                         tokens |-> ReloginTokens, time |-> 0, threads |-> 0])

SpecRelogin == InitRelogin /\ [][NextRelogin]_vars

(* Lifetimes: one connection that logs in with a password and with a token *)
(* it issued, issues tokens from both sessions, logs out and closes; the    *)
(* tokens are looked up and destroyed from elsewhere, and the clock runs.   *)
NextLife ==
    \/ \E c \in Conns : core_on_connect(c, UnixSocketOrigin(1000), "None", Calls, "None")
    \/ \E c \in Conns : login(c, TRUE, Calls, FALSE, FALSE)
    \/ \E c \in Conns, id \in TokenIds : login_with_token(c, id)
    \/ \E c \in Conns, v \in 1..MaxTTL :
          generate_token(c, [null |-> FALSE, v |-> v], {}, FALSE)
    \/ \E c \in Conns : logout(c)
    \/ \E c \in Conns : on_message(c)
    \/ \E c \in Conns : on_close(c)
    \/ \E id \in TokenIds : get_token_for_action(id, UnixSocketOrigin(1000), "GET /pool")
    \/ \E id \in TokenIds : destroy(TokenStr(id))
    \/ Tick

InitLife == InitWith([conns |-> 1, creds |-> LifeCreds, tokens |-> LifeTokens,
                      time |-> LifeTime, threads |-> 0])

SpecLife == InitLife /\ [][NextLife]_vars

(* Nested tokens: one connection that logs in with a password or an API    *)
(* key of wide or narrow permissions, issues a token, logs in with it and   *)
(* issues the next one from that session; calls are authorized, tokens are  *)
(* looked up and destroyed, and the clock runs.                             *)
NextNested ==
    \/ \E c \in Conns : core_on_connect(c, UnixSocketOrigin(1000), "None", Calls, "None")
    \/ \E c \in Conns, allow \in AllowLists : login(c, TRUE, allow, FALSE, FALSE)
    \/ \E c \in Conns, allow \in AllowLists : login_with_api_key(c, TRUE, allow)
    \/ \E c \in Conns, id \in TokenIds : login_with_token(c, id)
    \/ \E c \in Conns, v \in 1..MaxTTL :
          generate_token(c, [null |-> FALSE, v |-> v], {}, FALSE)
    \/ \E c \in Conns, call \in Calls : authorize(c, call)
    \/ \E id \in TokenIds, call \in Calls :
          get_token_for_action(id, UnixSocketOrigin(1000), call)
    \/ \E id \in TokenIds : destroy(TokenStr(id))
    \/ Tick

InitNested == InitWith([conns |-> 1, creds |-> NestedCreds, tokens |-> NestedTokens,
                        time |-> NestedTime, threads |-> 0])

SpecNested == InitNested /\ [][NextNested]_vars

(* The interconnect check: is_ha_connection applied to peer addresses, the *)
(* two interconnect addresses and their neighbours among them, and to every *)
(* source port; one run asks about one peer.                                *)
HaAddrs ==
    { <<"169", "254", "10", "1">>, <<"169", "254", "10", "2">>,
      <<"169", "254", "10", "0">>, <<"169", "254", "10", "3">>,
      <<"169", "254", "11", "1">>, <<"127", "0", "0", "1">>,
      <<"::ffff", "169", "254", "10", "1">>, <<"::1">> }

HaPorts == 0..MaxPort

\* a caller asks whether the peer at (remote_addr, remote_port) is the other
\* controller
call_is_ha_connection(remote_addr, remote_port) ==
    Commit(St, Ret("is_ha_connection", 0,
                   IF is_ha_connection(remote_addr, remote_port) THEN "True" ELSE "False",
                   [addr |-> remote_addr, port |-> remote_port], "none", {}))

NextHa ==
    /\ ret.op = "init"
    /\ \E remote_addr \in HaAddrs, remote_port \in HaPorts :
          call_is_ha_connection(remote_addr, remote_port)

InitHa == InitWith([conns |-> 0, creds |-> 0, tokens |-> 0, time |-> 0, threads |-> 0])

SpecHa == InitHa /\ [][NextHa]_vars

(* ======================================================================= *)
(* Calls in flight.  SessionManager.logout, the two callbacks and            *)
(* TokenManager.get run statement by statement, a thread each, and any       *)
(* thread may take the next step; one access to a dict (get, pop, item       *)
(* assignment) is one step.                                                  *)
(* ======================================================================= *)
InFlight(c) == \E t \in DOMAIN threads : threads[t].pc # "idle" /\ threads[t].conn = c

\* the call of thread t returns val or raises err
Return(s, t, val, err) ==
    [s EXCEPT !.threads[t] = Idle, !.val = val, !.err = err]

\* one callback of thread t has returned: the framework runs the next
\* registration, or the call is over and a closing connection is closed
CallbackDone(s, t) ==
    LET th == s.threads[t]
    IN IF th.left > 1
       THEN [s EXCEPT !.threads[t].left = @ - 1,
                      !.threads[t].sess = NoSession,
                      !.threads[t].pc = IF th.op = "on_message" THEN "msg_get"
                                        ELSE "logout_pop"]
       ELSE Return([s EXCEPT !.apps[th.conn].state =
                                 IF th.op = "on_close" THEN "closed" ELSE @],
                   t, IF th.op = "logout" THEN "True" ELSE "None", "none")

\* reads the session without taking it out of the registry
SessionManager_logout_get(s, t) ==
    LET c == s.threads[t].conn
    IN IF c \in DOMAIN s.sessions
       THEN [s EXCEPT !.threads[t].sess = s.creds[s.sessions[c].credentials],
                      !.threads[t].pc = "logout_hook"]
       ELSE [s EXCEPT !.threads[t].pc = "logout_flag"]

\* session = self.sessions.pop(app.session_id, None)
SessionManager_logout_pop(s, t) ==
    LET c == s.threads[t].conn
    IN IF c \in DOMAIN s.sessions
       THEN [s EXCEPT !.sessions = [k \in DOMAIN s.sessions \ {c} |-> s.sessions[k]],
                      !.threads[t].sess = s.creds[s.sessions[c].credentials],
                      !.threads[t].pc = "logout_hook"]
       ELSE [s EXCEPT !.threads[t].pc = "logout_flag"]

\* session.credentials.logout()
SessionManager_logout_hook(s, t) ==
    LET th == s.threads[t]
        s1 == [s EXCEPT !.hooked[th.conn] = @ + 1, !.threads[t].pc = "logout_event"]
    IN IF th.sess.kind = "TOKEN"
       THEN TokenManager_destroy(s1, TokenObj(th.sess.token))
       ELSE s1

\* if not is_internal_session(session): send_event(REMOVED)
SessionManager_logout_event(s, t) ==
    LET c == s.threads[t].conn
        s1 == [s EXCEPT !.threads[t].pc = "logout_flag"]
    IN IF ~is_internal_session(s1, c)
       THEN send_event(s1, Event("REMOVED", c, NoOrigin, ""))
       ELSE s1

\* app.authenticated = False
SessionManager_logout_flag(s, t) ==
    CallbackDone([s EXCEPT !.apps[s.threads[t].conn].authenticated = FALSE], t)

\* _app_on_message: session = self.sessions.get(app.session_id)
SessionManager_msg_get(s, t) ==
    LET c == s.threads[t].conn
    IN IF c \notin DOMAIN s.sessions
       THEN CallbackDone([s EXCEPT !.apps[c].authenticated = FALSE], t)
       ELSE [s EXCEPT !.threads[t].sess = s.creds[s.sessions[c].credentials],
                      !.threads[t].pc = "msg_check"]

\* _app_on_message: is_valid(), then logout or notify_used()
SessionManager_msg_check(s, t) ==
    LET sess == s.threads[t].sess
    IN IF sess.kind = "TOKEN" /\ ~Token_is_valid(s.tokobjs[sess.token], s.now)
       THEN [s EXCEPT !.threads[t].pc = "logout_pop"]
       ELSE CallbackDone(IF sess.kind = "TOKEN" THEN Token_notify_used(s, sess.token)
                         ELSE s, t)

\* TokenManager.get: token = self.tokens.get(token)
TokenManager_get_lookup(s, t) ==
    LET th == s.threads[t]
    IN IF TokenStr(th.id) \notin DOMAIN s.tokens
       THEN Return(s, t, "None", "none")
       ELSE [s EXCEPT !.threads[t].tok = s.tokens[TokenStr(th.id)],
                      !.threads[t].pc = "get_valid"]

\* TokenManager.get: is_valid(), and for a valid token the origin; then what
\* get_token_for_action does with the token
TokenManager_get_valid(s, t) ==
    LET th == s.threads[t]
        tok == s.tokobjs[th.tok]
    IN IF ~Token_is_valid(tok, s.now)
       THEN [s EXCEPT !.threads[t].pc = "get_pop"]
       ELSE IF tok.match_origin # NoOrigin
               /\ (th.origin.kind # tok.match_origin.kind
                   \/ ~Origin_match(tok.match_origin, th.origin))
            THEN Return(s, t, "None", "none")
            ELSE IF tok.attributes # {} THEN Return(s, t, "None", "none")
            ELSE IF ~Cred_authorize(s, tok.parent_credentials, th.call)
                 THEN Return(s, t, "None", "none")
                 ELSE Return(s, t, "credentials", "none")

\* TokenManager.get: self.tokens.pop(token.token); a pop without a default
\* raises KeyError when the key is gone
TokenManager_get_pop(s, t) ==
    LET k == TokenStr(s.threads[t].tok)
    IN IF k \in DOMAIN s.tokens
       THEN Return([s EXCEPT !.tokens = [j \in DOMAIN s.tokens \ {k} |-> s.tokens[j]]],
                   t, "None", "none")
       ELSE Return(s, t, "error", "KeyError")

\* thread t has taken a step that led to s1; a call that returned is reported
Step(t, s1) ==
    Commit(s1, IF s1.threads[t].pc = "idle"
               THEN Ret(threads[t].op, threads[t].conn, s1.val, threads[t].id, s1.err, {})
               ELSE ret)

Start(t, th) == Commit([St EXCEPT !.threads[t] = th], ret)

\* AuthService.logout is called
start_logout(t, c) ==
    /\ threads[t].pc = "idle"
    /\ apps[c].state = "open"
    /\ Start(t, [Idle EXCEPT !.pc = "logout_pop", !.op = "logout", !.conn = c,
                             !.left = 1])

\* a message arrives: the framework runs the on_message callbacks
start_on_message(t, c) ==
    /\ threads[t].pc = "idle"
    /\ apps[c].state = "open"
    /\ apps[c].on_message > 0
    /\ Start(t, [Idle EXCEPT !.pc = "msg_get", !.op = "on_message", !.conn = c,
                             !.left = apps[c].on_message])

\* the connection closes: the framework runs the on_close callbacks
start_on_close(t, c) ==
    /\ threads[t].pc = "idle"
    /\ apps[c].state = "open"
    /\ apps[c].on_close > 0
    /\ Commit([St EXCEPT !.apps[c].state = "closing",
                         !.threads[t] = [Idle EXCEPT !.pc = "logout_pop",
                                                     !.op = "on_close", !.conn = c,
                                                     !.left = apps[c].on_close]],
              ret)

\* AuthService.get_token_for_action is called on a worker thread
start_get_token_for_action(t, id, origin, call) ==
    /\ threads[t].pc = "idle"
    /\ Start(t, [Idle EXCEPT !.pc = "get_lookup", !.op = "get_token_for_action",
                             !.id = id, !.origin = origin, !.call = call])

logout_pop(t) ==
    threads[t].pc = "logout_pop" /\ \E s1 \in {SessionManager_logout_pop(St, t)} : Step(t, s1)

logout_hook(t) ==
    threads[t].pc = "logout_hook" /\ \E s1 \in {SessionManager_logout_hook(St, t)} : Step(t, s1)

logout_event(t) ==
    threads[t].pc = "logout_event" /\ \E s1 \in {SessionManager_logout_event(St, t)} : Step(t, s1)

logout_flag(t) ==
    threads[t].pc = "logout_flag" /\ \E s1 \in {SessionManager_logout_flag(St, t)} : Step(t, s1)

msg_get(t) ==
    threads[t].pc = "msg_get" /\ \E s1 \in {SessionManager_msg_get(St, t)} : Step(t, s1)

msg_check(t) ==
    threads[t].pc = "msg_check" /\ \E s1 \in {SessionManager_msg_check(St, t)} : Step(t, s1)

get_lookup(t) ==
    threads[t].pc = "get_lookup" /\ \E s1 \in {TokenManager_get_lookup(St, t)} : Step(t, s1)

get_valid(t) ==
    threads[t].pc = "get_valid" /\ \E s1 \in {TokenManager_get_valid(St, t)} : Step(t, s1)

get_pop(t) ==
    threads[t].pc = "get_pop" /\ \E s1 \in {TokenManager_get_pop(St, t)} : Step(t, s1)

Threads == DOMAIN threads
ConcOrigins == {UnixSocketOrigin(0), UnixSocketOrigin(1000)}

\* a connection logs in while none of its calls is in flight; everything
\* else interleaves
NextConc ==
    \/ \E c \in Conns, o \in ConcOrigins : core_on_connect(c, o, "None", Calls, "None")
    \/ \E c \in Conns : ~InFlight(c) /\ login(c, TRUE, Calls, FALSE, FALSE)
    \/ \E c \in Conns, id \in TokenIds : ~InFlight(c) /\ login_with_token(c, id)
    \/ \E c \in Conns : generate_token(c, [null |-> FALSE, v |-> 1], {}, FALSE)
    \/ Tick
    \/ \E t \in Threads, c \in Conns : start_logout(t, c)
    \/ \E t \in Threads, c \in Conns : start_on_message(t, c)
    \/ \E t \in Threads, c \in Conns : start_on_close(t, c)
    \/ \E t \in Threads, id \in TokenIds :
          start_get_token_for_action(t, id, UnixSocketOrigin(1000), "GET /pool")
    \/ \E t \in Threads : logout_pop(t)
    \/ \E t \in Threads : logout_hook(t)
    \/ \E t \in Threads : logout_event(t)
    \/ \E t \in Threads : logout_flag(t)
    \/ \E t \in Threads : msg_get(t)
    \/ \E t \in Threads : msg_check(t)
    \/ \E t \in Threads : get_lookup(t)
    \/ \E t \in Threads : get_valid(t)
    \/ \E t \in Threads : get_pop(t)

InitConc == InitWith([conns |-> ConcConns, creds |-> ConcCreds, tokens |-> ConcTokens,
                      time |-> ConcTime, threads |-> NumThreads])

SpecConc == InitConc /\ [][NextConc]_vars

(* ======================================================================= *)
(* SessionManager.login statement by statement, next to logout and the      *)
(* callbacks: the check of app.authenticated, the access to the registry    *)
(* and the assignments to the app are steps of their own.                   *)
(* ======================================================================= *)
\* the logins in flight: each will make one credential object and may
\* register the callbacks once more
LoginsInFlight == {t \in DOMAIN threads : threads[t].op = "login"}

\* SessionManager.login: if app.authenticated
SessionManager_login_check(s, t) ==
    [s EXCEPT !.threads[t].pc = IF s.apps[s.threads[t].conn].authenticated
                                THEN "login_replace" ELSE "login_insert"]

\* self.sessions[app.session_id].credentials = credentials, which raises
\* KeyError without the entry; app.authenticated_credentials = credentials
SessionManager_login_replace(s, t) ==
    LET c == s.threads[t].conn
        cr == Len(s.creds) + 1
    IN IF c \notin DOMAIN s.sessions
       THEN Return(s, t, "error", "KeyError")
       ELSE Return([NewCred(s, s.threads[t].sess) EXCEPT
                       !.sessions[c].credentials = cr,
                       !.apps[c].authenticated_credentials = cr],
                   t, "True", "none")

\* session = Session(...); self.sessions[app.session_id] = session
SessionManager_login_insert(s, t) ==
    LET c == s.threads[t].conn
        cr == Len(s.creds) + 1
    IN [NewCred(s, s.threads[t].sess) EXCEPT
           !.sessions = (c :> [credentials |-> cr, created_at |-> s.now])
                           @@ [k \in DOMAIN s.sessions \ {c} |-> s.sessions[k]],
           !.threads[t].cred = cr,
           !.threads[t].pc = "login_flag"]

\* app.authenticated = True and the rest of the fresh login; the thread's
\* credential is the one it made in login_insert
SessionManager_login_flag(s, t) ==
    LET c == s.threads[t].conn
        s1 == [s EXCEPT !.apps[c].authenticated = TRUE,
                        !.apps[c].authenticated_credentials = s.threads[t].cred,
                        !.apps[c].on_message = @ + 1,
                        !.apps[c].on_close = @ + 1]
        s2 == IF ~is_internal_session(s1, c)
              THEN send_event(s1, Event("ADDED", c, s1.apps[c].origin,
                                        s.threads[t].sess.kind))
              ELSE s1
    IN Return(s2, t, "True", "none")

\* AuthService.login is called and the account store accepts
start_login(t, c) ==
    /\ threads[t].pc = "idle"
    /\ apps[c].state = "open"
    /\ Len(creds) + Cardinality(LoginsInFlight) < lim.creds
    /\ apps[c].on_close + Cardinality(LoginsInFlight) < MaxCallbacks
    /\ Start(t, [Idle EXCEPT !.pc = "login_check", !.op = "login", !.conn = c,
                             !.sess = Cred("LOGIN_PASSWORD", Calls, None)])

login_check(t) ==
    threads[t].pc = "login_check" /\ \E s1 \in {SessionManager_login_check(St, t)} : Step(t, s1)

login_replace(t) ==
    threads[t].pc = "login_replace" /\ \E s1 \in {SessionManager_login_replace(St, t)} : Step(t, s1)

login_insert(t) ==
    threads[t].pc = "login_insert" /\ \E s1 \in {SessionManager_login_insert(St, t)} : Step(t, s1)

login_flag(t) ==
    threads[t].pc = "login_flag" /\ \E s1 \in {SessionManager_login_flag(St, t)} : Step(t, s1)

NextRace ==
    \/ \E c \in Conns : core_on_connect(c, UnixSocketOrigin(1000), "None", Calls, "None")
    \/ \E t \in Threads, c \in Conns : start_login(t, c)
    \/ \E t \in Threads, c \in Conns : start_logout(t, c)
    \/ \E t \in Threads, c \in Conns : start_on_message(t, c)
    \/ \E t \in Threads, c \in Conns : start_on_close(t, c)
    \/ \E t \in Threads : login_check(t)
    \/ \E t \in Threads : login_replace(t)
    \/ \E t \in Threads : login_insert(t)
    \/ \E t \in Threads : login_flag(t)
    \/ \E t \in Threads : logout_pop(t)
    \/ \E t \in Threads : logout_hook(t)
    \/ \E t \in Threads : logout_event(t)
    \/ \E t \in Threads : logout_flag(t)
    \/ \E t \in Threads : msg_get(t)
    \/ \E t \in Threads : msg_check(t)

SpecRace == InitConc /\ [][NextRace]_vars

(* ======================================================================= *)
(* The message callback with its two readings of the clock apart: is_valid  *)
(* reads time.monotonic() in one statement, notify_used in the next, and     *)
(* the clock and the other calls go on in between.                           *)
(* ======================================================================= *)
\* _app_on_message: if not session.credentials.is_valid(): self.logout(app)
SessionManager_msg_is_valid(s, t) ==
    LET sess == s.threads[t].sess
    IN IF sess.kind = "TOKEN" /\ ~Token_is_valid(s.tokobjs[sess.token], s.now)
       THEN [s EXCEPT !.threads[t].pc = "logout_pop"]
       ELSE [s EXCEPT !.threads[t].pc = "msg_notify"]

\* _app_on_message: session.credentials.notify_used()
SessionManager_msg_notify_used(s, t) ==
    LET sess == s.threads[t].sess
    IN CallbackDone(IF sess.kind = "TOKEN" THEN Token_notify_used(s, sess.token) ELSE s, t)

msg_is_valid(t) ==
    threads[t].pc = "msg_check" /\ \E s1 \in {SessionManager_msg_is_valid(St, t)} : Step(t, s1)

msg_notify_used(t) ==
    threads[t].pc = "msg_notify"
        /\ \E s1 \in {SessionManager_msg_notify_used(St, t)} : Step(t, s1)

(* Expiry: one connection that logs in with a password and with the token   *)
(* it issued, messages on it, lookups of the token from elsewhere, and the  *)
(* clock.                                                                    *)
NextExpiry ==
    \/ \E c \in Conns : core_on_connect(c, UnixSocketOrigin(1000), "None", Calls, "None")
    \/ \E c \in Conns : ~InFlight(c) /\ login(c, TRUE, Calls, FALSE, FALSE)
    \/ \E c \in Conns, id \in TokenIds : ~InFlight(c) /\ login_with_token(c, id)
    \/ \E c \in Conns : generate_token(c, [null |-> FALSE, v |-> 1], {}, FALSE)
    \/ \E id \in TokenIds : get_token_for_action(id, UnixSocketOrigin(1000), "GET /pool")
    \/ Tick
    \/ \E t \in Threads, c \in Conns : start_on_message(t, c)
    \/ \E t \in Threads : msg_get(t)
    \/ \E t \in Threads : msg_is_valid(t)
    \/ \E t \in Threads : msg_notify_used(t)
    \/ \E t \in Threads : logout_pop(t)
    \/ \E t \in Threads : logout_hook(t)
    \/ \E t \in Threads : logout_event(t)
    \/ \E t \in Threads : logout_flag(t)

InitExpiry == InitWith([conns |-> 1, creds |-> ExpiryCreds, tokens |-> 1,
                        time |-> ExpiryTime, threads |-> 1])

SpecExpiry == InitExpiry /\ [][NextExpiry]_vars

(* ======================================================================= *)
(*                               the claims                                *)
(* ======================================================================= *)
\* the token string id is a key of the registry
InRegistry(id) == TokenStr(id) \in DOMAIN tokens
\* the Token object i is referred to (a blanked one has no parent)
IsLive(tok) == tok.parent_credentials # None
\* the idle deadline of a token has passed at time t
PastDeadline(tok, t) == t >= tok.last_used_at + tok.ttl
\* the connection's session holds a token-derived credential
HasTokenSession(c) ==
    c \in DOMAIN sessions /\ creds[sessions[c].credentials].kind = "TOKEN"
SessionToken(c) == creds[sessions[c].credentials].token
TokenOps == {"get_token_for_action", "login_with_token"}

GotToken(r) ==
    \/ r.op = "get_token_for_action" /\ r.val = "credentials"
    \/ r.op = "login_with_token" /\ r.val \in {"True", "None"}

\* C2: a TokenManager.get (reached from get_token_for_action and from
\* login_with_token) on an id whose token is past its deadline hands out
\* nothing and removes the token from the registry; a get on an id that is
\* not in the registry hands out nothing and leaves the registry as it is;
\* an id that left the registry never comes back, so every later get finds
\* no entry; and a get that hands out a token found it before its deadline.
C2_ExpiredEvicted ==
    [][ \A id \in TokenIds :
          /\ (ret'.op \in TokenOps /\ ret'.ref = id /\ InRegistry(id)
                 /\ PastDeadline(tokobjs[tokens[TokenStr(id)]], now))
              => (~GotToken(ret') /\ TokenStr(id) \notin DOMAIN tokens')
          /\ (ret'.op \in TokenOps /\ ret'.ref = id /\ ~InRegistry(id))
              => (~GotToken(ret') /\ tokens' = tokens)
          /\ (id <= Len(tokobjs) /\ ~InRegistry(id)) => TokenStr(id) \notin DOMAIN tokens'
          /\ (ret'.op \in TokenOps /\ ret'.ref = id /\ GotToken(ret'))
              => (InRegistry(id) /\ ~PastDeadline(tokobjs[tokens[TokenStr(id)]], now))
      ]_vars

\* a get has just found nothing for a token that a session still holds, that
\* is past its deadline and gone from the registry
C2_Witness ==
    /\ ret.op = "get_token_for_action" /\ ret.val = "None"
    /\ ret.ref <= Len(tokobjs) /\ ~InRegistry(ret.ref)
    /\ IsLive(tokobjs[ret.ref])
    /\ tokobjs[ret.ref].ttl = MaxTTL
    /\ PastDeadline(tokobjs[ret.ref], now)

(* ------------------------------- C3 ------------------------------------ *)
\* same kind of origin and same discriminator: the uid of a Unix socket, the
\* address of a TCP endpoint
SameOrigin(o1, o2) ==
    /\ o1.kind = o2.kind
    /\ o1.kind = "unix" => o1.uid = o2.uid
    /\ o1.kind = "tcp" => o1.addr = o2.addr

\* what C3 says of a get of the registered token id from origin o, r being
\* what the operation returned
OriginLocked(id, o, r) ==
    LET tok == tokobjs[tokens[TokenStr(id)]]
    IN /\ GotToken(r) => SameOrigin(tok.match_origin, o)
       /\ (~SameOrigin(tok.match_origin, o) /\ ~PastDeadline(tok, now)) =>
             /\ tokens' = tokens /\ tokobjs' = tokobjs /\ now' = now
             /\ TokenManager_get(St, id, tok.match_origin).token = tokens[TokenStr(id)]

C4_LogoutDestroysToken ==
    [][ \A c \in Conns :
          (HasTokenSession(c) /\ c \notin DOMAIN sessions')
              => TokenStr(SessionToken(c)) \notin DOMAIN tokens'
      ]_vars

(* ------------------------------- C6 ------------------------------------ *)
\* C6: whenever a connection with a token-derived credential is asked to
\* authorize a call, the answer is what the token's parent credential
\* answers for that call in the state of the call.
C6_AuthorizeDelegates ==
    [][ \A c \in Conns, call \in Calls :
          (ret'.op = "authorize" /\ ret'.conn = c /\ HasTokenSession(c)
             /\ authorize(c, call))
          => ((ret'.val = "True") <=>
                 Cred_authorize(St, tokobjs[SessionToken(c)].parent_credentials, call))
      ]_vars

\* a token-derived credential has just authorized a call, and its parent's
\* permissions are wider than they were when the token was issued
C6_Witness ==
    /\ ret.op = "authorize" /\ ret.val = "True"
    /\ HasTokenSession(ret.conn)
    /\ creds[tokobjs[SessionToken(ret.conn)].parent_credentials].kind = "LOGIN_PASSWORD"
    /\ creds[tokobjs[SessionToken(ret.conn)].parent_credentials].allow = Calls

(* ------------------------------- C5 ------------------------------------ *)
LoginOps == {"login", "login_with_api_key", "login_with_token"}
LoginKind(op) ==
    CASE op = "login" -> "LOGIN_PASSWORD"
      [] op = "login_with_api_key" -> "API_KEY"
      [] op = "login_with_token" -> "TOKEN"

\* C5: a login that succeeds on a connection that is already authenticated
\* finds the connection's session, keeps the set of session ids as it is,
\* keeps the session's creation timestamp and puts the new credential into
\* it; a session's creation timestamp is the time of the login that created
\* it and no later step changes it.
C5_ReloginInPlace ==
    [][ \A c \in Conns :
          /\ (ret'.op \in LoginOps /\ ret'.conn = c /\ ret'.val = "True"
                 /\ apps[c].authenticated)
              => /\ ret'.err = "none"
                 /\ c \in DOMAIN sessions
                 /\ DOMAIN sessions' = DOMAIN sessions
                 /\ sessions'[c].created_at = sessions[c].created_at
                 /\ creds'[sessions'[c].credentials].kind = LoginKind(ret'.op)
                 /\ apps'[c].authenticated
                 /\ apps'[c].authenticated_credentials = sessions'[c].credentials
          /\ (c \notin DOMAIN sessions /\ c \in DOMAIN sessions')
              => sessions'[c].created_at = now
          /\ (c \in DOMAIN sessions /\ c \in DOMAIN sessions')
              => sessions'[c].created_at = sessions[c].created_at
      ]_vars

\* an API-key login has just succeeded on a connection whose session was
\* created earlier, and the session carries the API-key credential
C5_Witness ==
    /\ ret.op = "login_with_api_key" /\ ret.val = "True"
    /\ ret.conn \in DOMAIN sessions
    /\ sessions[ret.conn].created_at < now
    /\ creds[sessions[ret.conn].credentials].kind = "API_KEY"

(* ------------------------------- C7 ------------------------------------ *)
\* C7's internal session: the connection's origin is a Unix socket with uid
\* 0, or the session's credential is of the root-TCP-socket or the node type
Internal(c) ==
    \/ apps[c].origin.kind = "unix" /\ apps[c].origin.uid = 0
    \/ creds[sessions[c].credentials].kind \in {"ROOT_TCP_SOCKET", "TRUE_NAS_NODE"}

\* the ids of the listing a connection gets with the filter internal = false
ListedExternal(app) ==
    LET l == AuthService_sessions(St, app, {<<"internal", "=", FALSE>>})
    IN {l[n].id : n \in 1..Len(l)}

Called(name) == \E b \in BOOLEAN : <<name, b>> \in ret.calls
Answered(name) == <<name, TRUE>> \in ret.calls

\* C8: a password login asks the account store and the two-factor
\* configuration; it returns true exactly when the account store accepted
\* and two-factor is disabled or the OTP verified, and then the connection
\* has a session with a password-login credential; with two-factor enabled
\* the OTP is verified on every attempt, whatever the account store said.
C8_PasswordLogin ==
    ret.op = "login" =>
        /\ Called("auth.authenticate") /\ Called("auth.twofactor.config")
        /\ ret.val \in {"True", "False"}
        /\ (ret.val = "True") <=>
              /\ Answered("auth.authenticate")
              /\ ~Answered("auth.twofactor.config") \/ Answered("auth.twofactor.verify")
        /\ Answered("auth.twofactor.config") => Called("auth.twofactor.verify")
        /\ ret.val = "True" =>
              /\ ret.conn \in DOMAIN sessions
              /\ apps[ret.conn].authenticated
              /\ creds[sessions[ret.conn].credentials].kind = "LOGIN_PASSWORD"

\* a login has just been refused with two-factor enabled: the password was
\* wrong and the OTP was verified all the same
C8_Witness ==
    /\ ret.op = "login" /\ ret.val = "False"
    /\ <<"auth.authenticate", FALSE>> \in ret.calls
    /\ Answered("auth.twofactor.config")
    /\ Called("auth.twofactor.verify")

(* ------------------------------- C9 ------------------------------------ *)
\* the threads that have taken the connection's session out of the registry
\* and have yet to run its credential's logout hook
Holding(c) == {t \in Threads : threads[t].conn = c /\ threads[t].pc = "logout_hook"}

\* C9: at every point of every interleaving, each session ever created for
\* a connection (one per registration of its callbacks) is in the registry,
\* or in the hands of the one thread that popped it, or has had its logout
\* hook run, and never two of these; no more REMOVED events were sent for
\* the connection than hooks ran; once the connection is closed its session
\* is out of the registry, and once no call on it is in flight the hook ran
\* exactly once per session.
C9_LogoutOnce ==
    \A c \in Conns :
        /\ apps[c].on_close = hooked[c] + Cardinality(Holding(c))
                                 + (IF c \in DOMAIN sessions THEN 1 ELSE 0)
        /\ removed[c] <= hooked[c]
        /\ apps[c].state = "closed" => c \notin DOMAIN sessions
        /\ (apps[c].state = "closed" /\ ~InFlight(c)) =>
              /\ hooked[c] = apps[c].on_close
              /\ ~apps[c].authenticated

\* the connection is closed: its close callbacks, registered twice, have all
\* run, and an explicit logout that popped the session before them has yet
\* to run the hook
C9_Witness ==
    \E c \in Conns, t \in Threads :
        /\ apps[c].state = "closed"
        /\ apps[c].on_close = MaxCallbacks
        /\ threads[t].op = "logout" /\ threads[t].conn = c
        /\ threads[t].pc = "logout_hook"

(* ------------------------------- C10 ----------------------------------- *)
\* C10 as stated: under every interleaving, a get_token_for_action (whose
\* TokenManager.get checks the token and evicts it) completes without
\* raising an error.
C10_GetNeverRaises ==
    ret.op = "get_token_for_action" => ret.err = "none"

C12_LogoutAlwaysSucceeds ==
    [][ \A c \in Conns :
          (ret'.op = "logout" /\ ret'.conn = c) =>
              /\ ret'.val = "True" /\ ret'.err = "none"
              /\ DOMAIN sessions' = DOMAIN sessions \ {c}
              /\ ~apps'[c].authenticated
              /\ c \notin DOMAIN sessions =>
                    /\ events' = <<>>
                    /\ UNCHANGED <<sessions, tokens, tokobjs, creds, apps, hooked, removed>>
      ]_vars

\* a logout has just run on a password-login connection whose session an
\* earlier logout had removed: it sent no event
C12_Witness ==
    /\ ret.op = "logout" /\ ret.val = "True"
    /\ events = <<>>
    /\ hooked[ret.conn] = 1
    /\ apps[ret.conn].origin.kind = "tcp"
    /\ apps[ret.conn].authenticated_credentials # None
    /\ creds[apps[ret.conn].authenticated_credentials].kind = "LOGIN_PASSWORD"

(* ------------------------------- C13 ----------------------------------- *)
\* C13: generate_token on a connection that is not authenticated raises the
\* 'Not authenticated' error and leaves the registry and the Token objects
\* as they were; on an authenticated connection it returns a token that is
\* new in the registry, whose parent is the connection's credential and
\* whose ttl is 600 when none was given and the given ttl otherwise.
C13_IssuanceNeedsAuthentication ==
    [][ \A c \in Conns, ttl \in TtlArgs, attrs \in AttrSets, mo \in BOOLEAN :
          (ret'.op = "generate_token" /\ ret'.conn = c /\ generate_token(c, ttl, attrs, mo)) =>
              IF ~apps[c].authenticated
              THEN /\ ret'.val = "error" /\ ret'.err = "CallError"
                   /\ UNCHANGED <<tokens, tokobjs>>
              ELSE /\ ret'.val = "token" /\ ret'.err = "none"
                   /\ ~InRegistry(ret'.ref)
                   /\ DOMAIN tokens' = DOMAIN tokens \cup {TokenStr(ret'.ref)}
                   /\ \A k \in DOMAIN tokens : tokens'[k] = tokens[k]
                   /\ LET tok == tokobjs'[tokens'[TokenStr(ret'.ref)]]
                      IN /\ tok.parent_credentials = sessions'[c].credentials
                         /\ tok.parent_credentials = apps'[c].authenticated_credentials
                         /\ tok.ttl = IF ttl.null THEN 600 ELSE ttl.v
      ]_vars

\* generate_token has just been refused on a connection that had logged out,
\* while the token it was given earlier with the default ttl is registered
C13_Witness ==
    /\ ret.op = "generate_token" /\ ret.err = "CallError"
    /\ ~apps[ret.conn].authenticated
    /\ \E k \in DOMAIN tokens : tokobjs[tokens[k]].ttl = 600

(* ------------------------------- C14 ----------------------------------- *)
\* the registered token id carries attributes
HasAttributes(id) == InRegistry(id) /\ tokobjs[tokens[TokenStr(id)]].attributes # {}

\* what connection c is logged in as: its flag, whether the registry holds a
\* session for it, and the credential records behind the connection and the
\* session (the records, since the heap is renumbered when it is compacted)
LoggedInAs(c) ==
    [authenticated |-> apps[c].authenticated,
     session       |-> c \in DOMAIN sessions,
     credential    |-> IF apps[c].authenticated_credentials = None THEN <<>>
                       ELSE <<creds[apps[c].authenticated_credentials]>>,
     session_cred  |-> IF c \in DOMAIN sessions
                       THEN <<creds[sessions[c].credentials], sessions[c].created_at>>
                       ELSE <<>>]

\* C14 as stated: a login_with_token with a registered token that carries
\* attributes does not return true, leaves the session, the flag and the
\* credential of the connection as they were and leaves the token in the
\* registry.
C14_AttributesKeepToken ==
    [][ \A c \in Conns, id \in TokenIds :
          (ret'.op = "login_with_token" /\ HasAttributes(id) /\ login_with_token(c, id)) =>
              /\ ret'.val # "True"
              /\ LoggedInAs(c)' = LoggedInAs(c)
              /\ TokenStr(id) \in DOMAIN tokens'
      ]_vars

\* C14 (amended: an expired token is evicted): a login_with_token with a
\* registered token that carries attributes does not return true and leaves
\* the session, the flag and the credential of every connection as they
\* were; it leaves the token in the registry, as it was, unless the token is
\* past its deadline, and then the token is removed from the registry.
C14_AttributesNeverAuthenticate ==
    [][ \A c \in Conns, id \in TokenIds :
          (ret'.op = "login_with_token" /\ HasAttributes(id) /\ login_with_token(c, id)) =>
              /\ ret'.val # "True" /\ ret'.err = "none"
              /\ \A d \in Conns : LoggedInAs(d)' = LoggedInAs(d)
              /\ DOMAIN sessions' = DOMAIN sessions
              /\ IF PastDeadline(tokobjs[tokens[TokenStr(id)]], now)
                 THEN TokenStr(id) \notin DOMAIN tokens'
                 ELSE /\ TokenStr(id) \in DOMAIN tokens'
                      /\ LET old == tokobjs[tokens[TokenStr(id)]]
                             new == tokobjs'[tokens'[TokenStr(id)]]
                         IN /\ new.ttl = old.ttl
                            /\ new.attributes = old.attributes
                            /\ new.match_origin = old.match_origin
                            /\ new.last_used_at = old.last_used_at
      ]_vars

\* a login_with_token has just been refused for the attributes of a token
\* that is registered and before its deadline, on a connection without a
\* session
C14_Witness ==
    /\ ret.op = "login_with_token" /\ ret.val = "None"
    /\ HasAttributes(ret.ref)
    /\ ~PastDeadline(tokobjs[tokens[TokenStr(ret.ref)]], now)
    /\ ret.conn \notin DOMAIN sessions
    /\ ~apps[ret.conn].authenticated

(* ------------------------------- C15 ----------------------------------- *)
\* C15: login_with_token returns a boolean: true when it has established a
\* token session on the connection, false when it has not, and then the
\* connection is logged in as it was before.
C15_AlwaysBoolean ==
    [][ \A c \in Conns, id \in TokenIds :
          (ret'.op = "login_with_token" /\ login_with_token(c, id)) =>
              /\ ret'.val \in {"True", "False"}
              /\ ret'.val = "True" => HasTokenSession(c)' /\ apps'[c].authenticated
              /\ ret'.val # "True" => LoggedInAs(c)' = LoggedInAs(c)
      ]_vars

(* ------------------------------- C16 ----------------------------------- *)

\* a request from origin o for the registered token id is past the token's
\* deadline
Expired(id) == InRegistry(id) /\ PastDeadline(tokobjs[tokens[TokenStr(id)]], now)

\* the registered token id is before its deadline and locked to an origin
\* other than o
WrongOrigin(id, o) ==
    /\ InRegistry(id) /\ ~Expired(id)
    /\ tokobjs[tokens[TokenStr(id)]].match_origin # NoOrigin
    /\ ~SameOrigin(tokobjs[tokens[TokenStr(id)]].match_origin, o)

\* what a redeeming operation answers for an id that is not in the registry
\* (r), and what it answers for an expired token or from a wrong origin
SameAsUnknown(op, id, o, r) ==
    /\ ~InRegistry(id) =>
          /\ r.err = "none"
          /\ r.val = IF op = "login_with_token" THEN "False" ELSE "None"
    /\ (Expired(id) \/ WrongOrigin(id, o)) =>
          /\ r.err = "none"
          /\ r.val = IF op = "login_with_token" THEN "False" ELSE "None"

\* C16: login_with_token, get_token_for_action and
\* get_token_for_shell_application each answer the same for a token past its
\* deadline, for a token before its deadline that is locked to another
\* origin, and for an id that is not in the registry: false from
\* login_with_token, none from the other two, and no error; the connection
\* of a login_with_token is then logged in as it was before.
C16_RefusalsIndistinguishable ==
    [][ \A id \in TokenIds :
          /\ \A c \in Conns :
                (ret'.op = "login_with_token" /\ ret'.conn = c /\ ret'.ref = id
                   /\ login_with_token(c, id)) =>
                    /\ SameAsUnknown("login_with_token", id, apps[c].origin, ret')
                    /\ (~InRegistry(id) \/ Expired(id) \/ WrongOrigin(id, apps[c].origin))
                          => LoggedInAs(c)' = LoggedInAs(c)
          /\ \A o \in Origins :
                (ret'.op = "get_token_for_action" /\ ret'.ref = id
                   /\ get_token_for_action(id, o, "GET /pool")) =>
                    SameAsUnknown("get_token_for_action", id, o, ret')
          /\ \A o \in Origins, web_shell \in BOOLEAN :
                (ret'.op = "get_token_for_shell_application" /\ ret'.ref = id
                   /\ get_token_for_shell_application(id, o, web_shell)) =>
                    SameAsUnknown("get_token_for_shell_application", id, o, ret')
      ]_vars

\* a login_with_token has just answered false on a connection whose origin is
\* not the one the token is locked to; the token is registered, before its
\* deadline and without attributes
C16_Witness ==
    /\ ret.op = "login_with_token" /\ ret.val = "False"
    /\ WrongOrigin(ret.ref, apps[ret.conn].origin)
    /\ tokobjs[tokens[TokenStr(ret.ref)]].attributes = {}

(* ------------------------------- C17 ----------------------------------- *)
\* C17: the unfiltered listing a connection gets has one entry for every
\* session of the registry and no other, each with the creation time of its
\* session and in ascending order of it; an entry is current exactly when
\* its id is the id of the asking connection, and internal exactly when the
\* session's connection is a Unix socket of uid 0 or its credential is of
\* the root-TCP-socket or the node type.
C17_ListingFaithful ==
    \A app \in Conns :
      LET l == AuthService_sessions(St, app, {})
      IN /\ Len(l) = Cardinality(DOMAIN sessions)
         /\ {l[n].id : n \in 1..Len(l)} = DOMAIN sessions
         /\ \A n \in 1..Len(l), m \in 1..Len(l) :
               n < m => l[n].created_at <= l[m].created_at
         /\ \A n \in 1..Len(l) :
               /\ l[n].created_at = sessions[l[n].id].created_at
               /\ l[n].current <=> (l[n].id = app)
               /\ l[n].internal <=> Internal(l[n].id)

\* two sessions, the one with the higher id created first and internal, the
\* other one not internal: its connection is listed last and as current
C17_Witness ==
    /\ DOMAIN sessions = {1, 2}
    /\ sessions[2].created_at < sessions[1].created_at
    /\ Internal(2) /\ ~Internal(1)
    /\ LET l == AuthService_sessions(St, 1, {})
       IN /\ Len(l) = 2 /\ l[1].id = 2 /\ l[2].id = 1
          /\ l[2].current /\ ~l[1].current /\ l[1].internal /\ ~l[2].internal

(* ------------------------------- C18 ----------------------------------- *)
\* the sessions terminate_other_sessions called from connection c is to
\* close: every session but c's own and the internal ones
OtherSessions(c) == {d \in DOMAIN sessions : d # c /\ ~Internal(d)}

C19_TerminateReturnsBoolean ==
    [][ \A id \in Conns, fail \in BOOLEAN :
          (ret'.op = "terminate_session" /\ ret'.ref = id /\ ret'.err = "none"
             /\ terminate_session(id, fail)) =>
              IF id \in DOMAIN sessions
              THEN ret'.val = "True" /\ apps'[id].state = "closing"
              ELSE ret'.val = "False" /\ UNCHANGED <<apps, sessions>>
      ]_vars

(* ------------------------------- C20 ----------------------------------- *)
\* the token registered under key k, with the record of its parent
\* credential (the heap is renumbered when it is compacted)
Registered(k) ==
    [tokobjs[tokens[k]] EXCEPT
        !.parent_credentials = creds[tokobjs[tokens[k]].parent_credentials]]

\* C20: TokenManager.destroy of a token string raises nothing and leaves
\* the registry without that key; the registry is unchanged if the key was
\* not in it; every other key stays, with its token as it was; and
\* a second destroy of the same key gives what the first one gave.
C20_DestroyIdempotent ==
    [][ \A id \in 1..DestroyTokens :
          (ret'.op = "destroy" /\ ret'.ref = TokenStr(id) /\ destroy(TokenStr(id))) =>
              /\ ret'.err = "none"
              /\ DOMAIN tokens' = DOMAIN tokens \ {TokenStr(id)}
              /\ TokenStr(id) \notin DOMAIN tokens => tokens' = tokens /\ tokobjs' = tokobjs
              /\ \A k \in DOMAIN tokens' : Registered(k)' = Registered(k)
              /\ LET once == TokenManager_destroy(St, TokenStr(id))
                 IN /\ TokenManager_destroy(once, TokenStr(id)) = once
                    /\ once.tokens = tokens'
      ]_vars

\* destroy has just been called for a token string that was issued and is
\* not in the registry, while the other token is still registered
C20_Witness ==
    /\ ret.op = "destroy" /\ ret.err = "none"
    /\ \E id \in 1..DestroyTokens, other \in 1..DestroyTokens :
          /\ ret.ref = TokenStr(id)
          /\ id <= Len(tokobjs) /\ TokenStr(id) \notin DOMAIN tokens
          /\ other # id /\ TokenStr(other) \in DOMAIN tokens

(* ------------------------------- C21 ----------------------------------- *)
\* the state with the attributes of every token replaced by attrs
WithAttributes(attrs) ==
    [St EXCEPT !.tokobjs = [i \in DOMAIN tokobjs |-> [tokobjs[i] EXCEPT !.attributes = attrs]]]

\* the shape of the dump d of credential cr: the id and the name of an API
\* key, the dump of the parent of a token-derived credential
DumpShape(cr, d, api_key, user) ==
    /\ creds[cr].kind = "API_KEY" =>
          d.credentials_data = [api_key |-> [id |-> api_key.id, name |-> api_key.name]]
    /\ creds[cr].kind = "TOKEN" =>
          d.credentials_data =
              [parent |-> dump_credentials(St, tokobjs[creds[cr].token].parent_credentials,
                                           api_key, user)]

\* C21: the dump of every session, which the listing and the ADDED event
\* carry, is the same for two API-key rows that agree on id and name and for
\* any attributes of the tokens; the dump of an API-key credential holds the
\* id and the name of the key only, the dump of a token-derived credential
\* the dump of the token's parent only; and an ADDED event carries the
\* origin and the credential name of that dump.
C21_DumpHidesSecrets ==
    /\ \A c \in DOMAIN sessions, user \in UserRows, k1 \in ApiKeyRows :
          /\ \A k2 \in ApiKeyRows, attrs \in AttrSets :
                (k1.id = k2.id /\ k1.name = k2.name) =>
                    Session_dump(WithAttributes(attrs), c, k2, user) = Session_dump(St, c, k1, user)
          /\ \A cr \in DOMAIN creds : DumpShape(cr, dump_credentials(St, cr, k1, user), k1, user)
    /\ \A n \in 1..Len(events), user \in UserRows, k \in ApiKeyRows :
          (events[n].kind = "ADDED" /\ events[n].id \in DOMAIN sessions) =>
              /\ events[n].origin = Session_dump(St, events[n].id, k, user).origin
              /\ events[n].credentials = Session_dump(St, events[n].id, k, user).credentials

\* a connection has just logged in with a token issued from an API-key
\* session, and the ADDED event of its session was sent
C21_Witness ==
    /\ ret.op = "login_with_token" /\ ret.val = "True"
    /\ HasTokenSession(ret.conn)
    /\ creds[tokobjs[SessionToken(ret.conn)].parent_credentials].kind = "API_KEY"
    /\ \E n \in 1..Len(events) : events[n].kind = "ADDED" /\ events[n].id = ret.conn

(* ------------------------------- C22 ----------------------------------- *)
\* the REMOVED events for connection c among the events evs
RemovedEvents(evs, c) == {n \in 1..Len(evs) : evs[n].kind = "REMOVED" /\ evs[n].id = c}

\* C22: a message on a connection whose session's credential is not valid
\* any more removes the session from the registry, clears the
\* authenticated flag and sends one REMOVED event if the session was not
\* internal and none if it was; a message on a connection with a valid
\* session keeps the session and the flag; a message on a connection
\* without a session leaves the flag false and changes nothing else.
C22_MessageLogsOutInvalid ==
    [][ \A c \in Conns :
          (ret'.op = "on_message" /\ ret'.conn = c /\ on_message(c)) =>
              /\ ret'.err = "none"
              /\ IF c \in DOMAIN sessions
                 THEN IF ~Cred_is_valid(St, sessions[c].credentials)
                      THEN /\ DOMAIN sessions' = DOMAIN sessions \ {c}
                           /\ ~apps'[c].authenticated
                           /\ Cardinality(RemovedEvents(events', c))
                                 = IF Internal(c) THEN 0 ELSE 1
                           /\ Len(events') = Cardinality(RemovedEvents(events', c))
                      ELSE /\ DOMAIN sessions' = DOMAIN sessions
                           /\ apps'[c].authenticated
                           /\ events' = <<>>
                 ELSE /\ ~apps'[c].authenticated
                      /\ apps' = [apps EXCEPT ![c].authenticated = FALSE]
                      /\ events' = <<>>
                      /\ UNCHANGED <<sessions, tokens, tokobjs, creds, hooked, removed>>
      ]_vars

\* a message has just arrived on a connection that had logged in with a
\* token: the token had expired, the session is gone, the flag is false and
\* the REMOVED event was sent
C22_Witness ==
    /\ ret.op = "on_message"
    /\ ret.conn \notin DOMAIN sessions
    /\ ~apps[ret.conn].authenticated
    /\ apps[ret.conn].authenticated_credentials # None
    /\ creds[apps[ret.conn].authenticated_credentials].kind = "TOKEN"
    /\ RemovedEvents(events, ret.conn) # {}

(* ------------------------------- C23 ----------------------------------- *)
\* C23: a message on a connection whose session holds a token-derived
\* credential that is still valid sets the token's last-used time to the
\* time of the message and leaves its ttl, the session and the
\* authenticated flag; so the session is only logged out by a message that
\* comes ttl or more after the last use, whatever the age of the session.
C23_MessagesKeepTokenAlive ==
    [][ \A c \in Conns :
          (ret'.op = "on_message" /\ ret'.conn = c /\ HasTokenSession(c)
             /\ apps[c].on_message > 0 /\ on_message(c)) =>
              LET i == SessionToken(c)
              IN IF now < tokobjs[i].last_used_at + tokobjs[i].ttl
                 THEN /\ tokobjs'[i].last_used_at = now
                      /\ tokobjs'[i].ttl = tokobjs[i].ttl
                      /\ HasTokenSession(c)' /\ SessionToken(c)' = i
                      /\ sessions'[c].created_at = sessions[c].created_at
                      /\ apps'[c].authenticated
                 ELSE c \notin DOMAIN sessions'
      ]_vars

\* a token session created at time 0 with a ttl of MaxTTL has just received
\* a message at a time past MaxTTL and is still logged in, the token used
\* at that time
C23_Witness ==
    /\ ret.op = "on_message"
    /\ HasTokenSession(ret.conn)
    /\ apps[ret.conn].authenticated
    /\ sessions[ret.conn].created_at = 0
    /\ now > MaxTTL
    /\ tokobjs[SessionToken(ret.conn)].ttl = MaxTTL
    /\ tokobjs[SessionToken(ret.conn)].last_used_at = now

(* ------------------------------- C24 ----------------------------------- *)
\* C24: after a login_with_token that returned true and after a
\* get_token_for_action that returned a credential, the last-used time of
\* the redeemed token is the time of the redemption.
C24_RedemptionNotifiesUse ==
    [][ \A id \in TokenIds :
          (ret'.op \in TokenOps /\ ret'.ref = id /\ ret'.val \in {"True", "credentials"}) =>
              tokobjs'[tokens'[TokenStr(id)]].last_used_at = now'
      ]_vars

(* ------------------------------- C25 ----------------------------------- *)
\* C25: get_token returns none for an id whose token is past its deadline,
\* as it does for an id that is not in the registry.
C25_InspectionHidesExpired ==
    [][ \A id \in TokenIds :
          (ret'.op = "get_token" /\ ret'.ref = id /\ (~InRegistry(id) \/ Expired(id))) =>
              ret'.val = "None"
      ]_vars

(* ------------------------------- C26 ----------------------------------- *)
\* C26: terminate_session leaves the registry and the authenticated flags
\* as they are and sends no event; the close of a connection that it closed removes the
\* connection's session, leaves the flag false and sends one REMOVED event
\* if the session was not internal and none if it was; and once the
\* transport of a connection with a session is closed, the session is
\* eventually out of the registry with the flag false.
C26_TerminatedSessionLogsOut ==
    /\ [][ \A c \in Conns :
            /\ (ret'.op = "terminate_session" /\ ret'.ref = c) =>
                  /\ UNCHANGED <<sessions, creds>>
                  /\ events' = <<>>
                  /\ apps'[c].authenticated = apps[c].authenticated
            /\ (ret'.op = "on_close" /\ ret'.conn = c /\ apps[c].state = "closing"
                   /\ c \in DOMAIN sessions) =>
                  /\ DOMAIN sessions' = DOMAIN sessions \ {c}
                  /\ ~apps'[c].authenticated
                  /\ Cardinality(RemovedEvents(events', c)) = IF Internal(c) THEN 0 ELSE 1
        ]_vars
    /\ \A c \in 1..TermConns :
          (apps[c].state = "closing" /\ c \in DOMAIN sessions)
              ~> (c \notin DOMAIN sessions /\ ~apps[c].authenticated)

\* terminate_session has just closed the transport of a connection whose
\* session is still in the registry
C26_Witness ==
    /\ ret.op = "terminate_session" /\ ret.val = "None" /\ ret.err = "none"
    /\ ret.ref \in DOMAIN sessions
    /\ apps[ret.ref].state = "closing"
    /\ apps[ret.ref].authenticated

(* ------------------------------- C27 ----------------------------------- *)
\* the origins the classifier is asked about: those of the connections, the
\* IPv6 loopback and an address that only begins like 127
ClassifierOrigins ==
    Origins \cup { TCPIPOrigin(<<"::1">>, 40000), TCPIPOrigin(<<"12", "7", "0", "1">>, 40000) }

\* the questions put to the classifier: a Unix-socket origin with every
\* answer of the account store, a TCP origin with every answer of the peer
\* lookup
ClassifierInputs ==
    [origin : {o \in ClassifierOrigins : o.kind = "unix"}, acct : AccountAnswers, peer : {"None"}]
    \cup [origin : {o \in ClassifierOrigins : o.kind = "tcp"}, acct : {"None"}, peer : PeerAnswers]

\* the credential C27's policy gives a connection from origin o, the account
\* store answering acct and the peer lookup answering peer
Elevation(o, acct, peer) ==
    IF o.kind = "unix"
    THEN IF o.uid = 0 \/ acct = "user" THEN "UNIX_SOCKET" ELSE "none"
    ELSE IF o.kind = "tcp" /\ (o.addr[1] = "127" \/ o.addr = <<"::1">>) /\ peer = "euid0"
         THEN "ROOT_TCP_SOCKET" ELSE "none"

\* what check_permission did, s0 before and s1 after, to connection c is what
\* the policy says
Elevated(s0, s1, c, kind) ==
    IF kind = "none"
    THEN s1 = s0
    ELSE /\ s1.err = "none"
         /\ DOMAIN s1.sessions = DOMAIN s0.sessions \cup {c}
         /\ s1.apps[c].authenticated
         /\ s1.apps[c].authenticated_credentials = s1.sessions[c].credentials
         /\ s1.creds[s1.sessions[c].credentials].kind = kind
         /\ kind = "UNIX_SOCKET" /\ s0.apps[c].origin.uid = 0 =>
               s1.creds[s1.sessions[c].credentials].allow = Calls

\* C27: check_permission on a new connection gives a Unix-socket origin of
\* uid 0 a session with the Unix-socket credential of the root user, a
\* Unix-socket origin of another uid a session with the Unix-socket
\* credential exactly when the account store has an account of that uid and
\* resolves its user, a TCP origin a session with the root-TCP-socket
\* credential exactly when its address is loopback and the peer process is
\* found with effective uid 0, and leaves everything as it was otherwise; and
\* a connection that is not of the HA interconnect starts with that session
\* or, without one, unauthenticated.
C27_ElevationPolicy ==
    /\ [](\A c \in Conns :
            (apps[c].state = "new" /\ Len(creds) < lim.creds) =>
                \A q \in ClassifierInputs :
                    LET s0 == [St EXCEPT !.apps[c].state = "open", !.apps[c].origin = q.origin]
                    IN Elevated(s0, check_permission(s0, c, q.acct, Calls, q.peer), c,
                                Elevation(q.origin, q.acct, q.peer)))
    /\ [][ ret'.op = "core.on_connect" =>
              \A o \in Origins, acct \in AccountAnswers, peer \in PeerAnswers :
                  LET c == ret'.conn
                  IN (~(o.kind = "tcp" /\ is_ha_connection(o.addr, o.port))
                        /\ apps'[c].origin = o
                        /\ core_on_connect(c, o, acct, Calls, peer)) =>
                      IF Elevation(o, acct, peer) = "none"
                      THEN /\ c \notin DOMAIN sessions' /\ ~apps'[c].authenticated
                           /\ DOMAIN sessions' = DOMAIN sessions
                      ELSE /\ c \in DOMAIN sessions' /\ apps'[c].authenticated
                           /\ creds'[sessions'[c].credentials].kind = Elevation(o, acct, peer)
        ]_vars

\* a connection from a Unix socket of uid 1000 has just arrived and has a
\* session with the Unix-socket credential
C27_Witness ==
    /\ ret.op = "core.on_connect"
    /\ apps[ret.conn].origin = UnixSocketOrigin(1000)
    /\ ret.conn \in DOMAIN sessions
    /\ creds[sessions[ret.conn].credentials].kind = "UNIX_SOCKET"
    /\ apps[ret.conn].authenticated

(* ------------------------------- C28 ----------------------------------- *)
\* the classifier fails for origin o: the account store has no account of a
\* non-zero Unix-socket uid or does not resolve its user, the peer process
\* of a loopback TCP endpoint is not found or has vanished
ClassifierFails(o, acct, peer) ==
    \/ o.kind = "unix" /\ o.uid # 0 /\ acct \in {"MatchNotFound", "None"}
    \/ o.kind = "tcp" /\ IsLoopback(o.addr) /\ peer \in {"None", "NoSuchProcess"}

\* C28: when the classifier fails, check_permission returns without an
\* error and changes nothing, and the connection starts without a session
\* and not authenticated, no event sent, the registry, the credentials and
\* the other connections as they were.
C28_ClassifierFailuresAreSilent ==
    /\ [](\A c \in Conns :
            (apps[c].state = "new" /\ Len(creds) < lim.creds) =>
                \A q \in ClassifierInputs :
                    ClassifierFails(q.origin, q.acct, q.peer) =>
                        LET s0 == [St EXCEPT !.apps[c].state = "open",
                                             !.apps[c].origin = q.origin]
                            s1 == check_permission(s0, c, q.acct, Calls, q.peer)
                        IN s1.err = "none" /\ s1 = s0)
    /\ [][ ret'.op = "core.on_connect" =>
              \A o \in Origins, acct \in AccountAnswers, peer \in PeerAnswers :
                  LET c == ret'.conn
                  IN (ClassifierFails(o, acct, peer) /\ apps'[c].origin = o
                        /\ core_on_connect(c, o, acct, Calls, peer)) =>
                      /\ ret'.err = "none"
                      /\ ~apps'[c].authenticated
                      /\ events' = <<>>
                      /\ UNCHANGED <<sessions, creds, tokens, tokobjs>>
                      /\ \A d \in Conns \ {c} : apps'[d] = apps[d]
        ]_vars

\* a connection from a Unix socket of uid 1000 has just arrived, the account
\* store did not give a user for it, and it has no session
C28_Witness ==
    /\ ret.op = "core.on_connect" /\ ret.err = "none"
    /\ apps[ret.conn].origin = UnixSocketOrigin(1000)
    /\ apps[ret.conn].state = "open"
    /\ ret.conn \notin DOMAIN sessions
    /\ ~apps[ret.conn].authenticated

(* ------------------------------- C29 ----------------------------------- *)
\* one step up the parent chain from credential cr: the parent of the token
\* of a token-derived credential; the chain ends at any other credential
\* and at an absent parent
ChainEnds(s, cr) == cr = None \/ s.creds[cr].kind # "TOKEN"
ChainStep(s, cr) ==
    IF ChainEnds(s, cr) THEN cr ELSE s.tokobjs[s.creds[cr].token].parent_credentials

\* the parent chain of Token object i, as far as there are tokens
ParentChain(s, i) ==
    LET w[k \in 0..Len(s.tokobjs)] ==
            IF k = 0 THEN s.tokobjs[i].parent_credentials ELSE ChainStep(s, w[k - 1])
    IN w

\* r is the first credential on the parent chain of Token object i that is
\* not token-derived, or none if the chain comes to an absent parent first
FirstNonToken(s, i, r) ==
    \E k \in DOMAIN ParentChain(s, i) :
        /\ ChainEnds(s, ParentChain(s, i)[k])
        /\ \A j \in 0..(k - 1) : ~ChainEnds(s, ParentChain(s, i)[j])
        /\ r = ParentChain(s, i)[k]

\* the state with the parent of Token object j absent
WithoutParent(j) == [St EXCEPT !.tokobjs[j].parent_credentials = None]

\* C29: for every registered token, root_credentials is the first
\* credential on the token's parent chain that is not token-derived; with
\* the parent of any token on the chain absent, it is none exactly when the
\* chain comes to the absent parent.
C29_RootCredentials ==
    \A k \in DOMAIN tokens :
        LET i == tokens[k]
        IN /\ FirstNonToken(St, i, Token_root_credentials(St, i))
           /\ Token_root_credentials(St, i) # None
           /\ \A j \in {tokens[m] : m \in DOMAIN tokens} :
                 /\ FirstNonToken(WithoutParent(j), i, Token_root_credentials(WithoutParent(j), i))
                 /\ Token_root_credentials(WithoutParent(j), i) = None
                       <=> \E n \in DOMAIN ParentChain(WithoutParent(j), i) :
                              ParentChain(WithoutParent(j), i)[n] = None

\* the third token was issued from a session of the second, the second from
\* a session of the first, the first from an API-key session, which is the
\* root credential of all three
C29_Witness ==
    /\ Len(tokobjs) = 3 /\ DOMAIN tokens = {TokenStr(1), TokenStr(2), TokenStr(3)}
    /\ Token_root_credentials(St, 3) # None
    /\ creds[Token_root_credentials(St, 3)].kind = "API_KEY"
    /\ ~ChainEnds(St, ParentChain(St, 3)[0])
    /\ ~ChainEnds(St, ParentChain(St, 3)[1])
    /\ ParentChain(St, 3)[2] = Token_root_credentials(St, 1)

(* ------------------------------- C30 ----------------------------------- *)
\* the tokens above Token object i: the tokens of the token-derived
\* credentials on its parent chain
Ancestors(s, i) ==
    {s.creds[ParentChain(s, i)[k]].token :
        k \in {n \in DOMAIN ParentChain(s, i) : ~ChainEnds(s, ParentChain(s, i)[n])}}

\* C30: the parent chain of every registered token comes to a credential
\* that is not token-derived within as many steps as there are tokens, no
\* token is among its own ancestors and every ancestor was created before
\* it; and no step changes the parent of a token that stays registered.
C30_ParentChainsAcyclic ==
    /\ [](\A k \in DOMAIN tokens :
            LET i == tokens[k]
            IN /\ ChainEnds(St, ParentChain(St, i)[Len(tokobjs)])
               /\ ParentChain(St, i)[Len(tokobjs)] # None
               /\ i \notin Ancestors(St, i)
               /\ \A a \in Ancestors(St, i) : a < i)
    /\ [][ \A k \in DOMAIN tokens \cap DOMAIN tokens' :
              /\ tokens'[k] = tokens[k]
              /\ creds'[tokobjs'[tokens'[k]].parent_credentials]
                    = creds[tokobjs[tokens[k]].parent_credentials]
        ]_vars

\* the second and the third token were both issued from sessions of the
\* first, the connection has logged out at least once and is logged in with
\* the third token
C30_Witness ==
    /\ Len(tokobjs) = 3 /\ DOMAIN tokens = {TokenStr(1), TokenStr(2), TokenStr(3)}
    /\ Ancestors(St, 2) = {1}
    /\ Ancestors(St, 3) = {1}
    /\ HasTokenSession(1) /\ SessionToken(1) = 3
    /\ hooked[1] > 0

(* ------------------------------- C31 ----------------------------------- *)
\* the token is not locked to an origin, or it is locked to one of o's kind
\* and discriminator
AcceptableFor(tok, o) == tok.match_origin = NoOrigin \/ SameOrigin(tok.match_origin, o)

\* the five conditions of C31 for token id, requesting origin o and call
Redeemable(id, o, call) ==
    /\ InRegistry(id)
    /\ LET tok == tokobjs[tokens[TokenStr(id)]]
       IN /\ ~PastDeadline(tok, now)
          /\ AcceptableFor(tok, o)
          /\ tok.attributes = {}
          /\ Cred_authorize(St, tok.parent_credentials, call)

\* C31: get_token_for_action returns a token-derived credential exactly when
\* the token id is in the registry, the token is before its deadline, it is
\* acceptable for the requesting origin, it carries no attributes and its
\* parent credential authorizes the call, all of this in the state of the
\* call; in every other case it returns None.
C31_ActionTokenIff ==
    [][ ret'.op = "get_token_for_action" =>
          \A o \in Origins, call \in Calls :
             get_token_for_action(ret'.ref, o, call) =>
                /\ ret'.val \in {"credentials", "None"}
                /\ (ret'.val = "credentials") <=> Redeemable(ret'.ref, o, call)
      ]_vars

\* get_token_for_action has just returned a credential for a token that is
\* locked to a TCP address and whose parent authorizes only one of the calls
C31_Witness ==
    /\ ret.op = "get_token_for_action" /\ ret.val = "credentials"
    /\ InRegistry(ret.ref)
    /\ LET tok == tokobjs[tokens[TokenStr(ret.ref)]]
       IN /\ tok.match_origin.kind = "tcp"
          /\ tok.ttl = MaxTTL
          /\ creds[tok.parent_credentials].allow = {"GET /pool"}

(* ------------------------------- C32 ----------------------------------- *)
\* the two addresses of the controller-to-controller link
InterconnectAddrs == {<<"169", "254", "10", "1">>, <<"169", "254", "10", "2">>}

\* C32: is_ha_connection(addr, port) answers true exactly when port <= 1024
\* and addr is 169.254.10.1 or 169.254.10.2; it answers false for every port
\* from 1025 on and for every other address.
C32_HaConnection ==
    ret.op = "is_ha_connection" =>
        /\ ret.val \in {"True", "False"}
        /\ (ret.val = "True") <=>
              (ret.ref.port <= 1024 /\ ret.ref.addr \in InterconnectAddrs)
        /\ ret.ref.port >= 1025 => ret.val = "False"
        /\ ret.ref.addr \notin InterconnectAddrs => ret.val = "False"

\* the second interconnect address at source port 1024 has just been
\* recognised
C32_Witness ==
    /\ ret.op = "is_ha_connection" /\ ret.val = "True"
    /\ ret.ref.port = 1024
    /\ ret.ref.addr = <<"169", "254", "10", "2">>

(* ------------------------------- C33 ----------------------------------- *)
\* C33: after every completed connect, login, logout, message and close, a
\* connection's authenticated flag is set exactly when the session registry
\* has an entry under the connection's session id, and the credential of
\* every entry is the very object the connection holds as its authenticated
\* credential.
C33_FlagEntryCredentialAgree ==
    /\ \A c \in Conns : apps[c].authenticated <=> c \in DOMAIN sessions
    /\ \A c \in DOMAIN sessions :
          /\ c \in Conns
          /\ sessions[c].credentials # None
          /\ sessions[c].credentials = apps[c].authenticated_credentials

\* a password login has just replaced the credential of a session that a
\* Unix-socket connection was given earlier, when it connected; another
\* connection has no session
C33_Witness ==
    /\ ret.op = "login" /\ ret.val = "True"
    /\ ret.conn \in DOMAIN sessions
    /\ apps[ret.conn].origin.kind = "unix"
    /\ sessions[ret.conn].created_at < now
    /\ creds[apps[ret.conn].authenticated_credentials].kind = "LOGIN_PASSWORD"
    /\ \E d \in Conns : d # ret.conn /\ apps[d].state = "open" /\ ~apps[d].authenticated

(* ------------------------------- C34 ----------------------------------- *)
\* C34 as stated: the ADDED and REMOVED events of one session id alternate,
\* ADDED first: at every moment the id has had as many REMOVED events as
\* ADDED events, or one ADDED event more.
C34_EventsAlternate ==
    \A c \in Conns : removed[c] <= added[c] /\ added[c] <= removed[c] + 1

(* ------------------------------- C35 ----------------------------------- *)
\* C35: a login that succeeds on a connection that is already authenticated
\* puts the new credential into the connection's session and into the
\* connection; it sends no event, registers no callback, runs no logout hook,
\* leaves the registry of tokens and every token in it as they were, and
\* leaves the sessions, the flags and the credentials of all other
\* connections as they were.
C35_ReloginFrame ==
    [][ (ret'.op \in LoginOps /\ ret'.val = "True" /\ apps[ret'.conn].authenticated) =>
          LET c == ret'.conn
          IN /\ ret'.err = "none"
             /\ sessions'[c].credentials = apps'[c].authenticated_credentials
             /\ creds'[sessions'[c].credentials].kind = LoginKind(ret'.op)
             /\ sessions'[c].created_at = sessions[c].created_at
             /\ apps'[c] = [apps[c] EXCEPT
                               !.authenticated_credentials = sessions'[c].credentials]
             /\ events' = <<>> /\ added' = added /\ removed' = removed
             /\ hooked' = hooked
             /\ DOMAIN tokens' = DOMAIN tokens
             /\ \A k \in DOMAIN tokens :
                   tokens'[k] = tokens[k] /\ Registered(k)' = Registered(k)
             /\ DOMAIN sessions' = DOMAIN sessions
             /\ \A d \in Conns \ {c} :
                   /\ LoggedInAs(d)' = LoggedInAs(d)
                   /\ [apps'[d] EXCEPT !.authenticated_credentials = None]
                         = [apps[d] EXCEPT !.authenticated_credentials = None]
             /\ now' = now
      ]_vars

\* a password login has just succeeded on a loopback connection that was
\* logged in when it connected and has registered its callbacks once: no
\* ADDED event was ever sent for it; a token is in the registry and the
\* other connection has a session
C35_Witness ==
    /\ ret.op = "login" /\ ret.val = "True"
    /\ IsLoopback(apps[ret.conn].origin.addr)
    /\ apps[ret.conn].on_close = 1
    /\ creds[sessions[ret.conn].credentials].kind = "LOGIN_PASSWORD"
    /\ added[ret.conn] = 0
    /\ DOMAIN tokens # {}
    /\ \E d \in DOMAIN sessions : d # ret.conn

(* ------------------------------- C36 ----------------------------------- *)
\* the Token object i, its parent as a record
TokenAsIs(i) ==
    [tokobjs[i] EXCEPT !.parent_credentials =
        IF tokobjs[i].parent_credentials = None THEN <<>>
        ELSE <<creds[tokobjs[i].parent_credentials]>>]

\* C36: a login with a password, an API key or a token that does not return
\* true raises nothing, sends no event, runs no logout hook, keeps the set of
\* sessions and leaves the session, the flag, the credential and the
\* callbacks of every connection as they were, so a connection that was
\* authenticated stays authenticated with the credential it had; the
\* registry of tokens is unchanged, except that a token login that found its
\* token past the deadline has removed that token from it; the tokens that
\* sessions hold are as they were.
C36_FailedLoginFrame ==
    [][ (ret'.op \in LoginOps /\ ret'.val # "True") =>
          /\ ret'.err = "none"
          /\ events' = <<>> /\ added' = added /\ removed' = removed /\ hooked' = hooked
          /\ now' = now
          /\ DOMAIN sessions' = DOMAIN sessions
          /\ \A d \in Conns :
                /\ LoggedInAs(d)' = LoggedInAs(d)
                /\ [apps'[d] EXCEPT !.authenticated_credentials = None]
                      = [apps[d] EXCEPT !.authenticated_credentials = None]
                /\ HasTokenSession(d) => TokenAsIs(SessionToken(d))' = TokenAsIs(SessionToken(d))
          /\ DOMAIN tokens' =
                IF ret'.op = "login_with_token" /\ InRegistry(ret'.ref)
                     /\ PastDeadline(tokobjs[tokens[TokenStr(ret'.ref)]], now)
                THEN DOMAIN tokens \ {TokenStr(ret'.ref)}
                ELSE DOMAIN tokens
          /\ \A k \in DOMAIN tokens' :
                tokens'[k] = tokens[k] /\ Registered(k)' = Registered(k)
      ]_vars

\* a token login has just failed on a connection that is logged in with a
\* password: the token is past its deadline and gone from the registry, and
\* the other connection still has the session it got from that token
C36_Witness ==
    /\ ret.op = "login_with_token" /\ ret.val = "False"
    /\ apps[ret.conn].authenticated
    /\ creds[apps[ret.conn].authenticated_credentials].kind = "LOGIN_PASSWORD"
    /\ ret.ref <= Len(tokobjs) /\ ~InRegistry(ret.ref)
    /\ PastDeadline(tokobjs[ret.ref], now)
    /\ \E d \in Conns \ {ret.conn} : HasTokenSession(d) /\ SessionToken(d) = ret.ref

(* ------------------------------- C37 ----------------------------------- *)
\* C37 as stated: a token whose is_valid() is false stays so: no step takes
\* a token from past its deadline to before it.
C37_ExpiryPermanent ==
    [][ \A i \in DOMAIN tokobjs :
          ~Token_is_valid(tokobjs[i], now) => ~Token_is_valid(tokobjs'[i], now')
      ]_vars

(* ------------------------------- C38 ----------------------------------- *)
\* the operations that end a session
SessionEnds == {"logout", "on_close", "on_message"}

RootOf(cr) == Token_root_credentials(St, creds[cr].token)

\* C39: in every state every token-derived credential, whatever has become
\* of the tokens on its chain, has a root credential that is not
\* token-derived, and it authorizes a call exactly when that root credential
\* does; the answer the connection of a token session gets to authorize, and
\* the answer of get_token_for_action for a token issued by a token session,
\* is the answer of the root credential.
C39_AuthorizeIsRootAuthorize ==
    /\ [](\A cr \in DOMAIN creds, call \in Calls :
             creds[cr].kind = "TOKEN" =>
                /\ RootOf(cr) # None
                /\ creds[RootOf(cr)].kind # "TOKEN"
                /\ TokenCred_authorize(St, cr, call) <=> Cred_authorize(St, RootOf(cr), call))
    /\ [][ /\ (ret'.op = "authorize" /\ HasTokenSession(ret'.conn)) =>
                \A call \in Calls :
                   authorize(ret'.conn, call) =>
                      ((ret'.val = "True") <=>
                          Cred_authorize(St, RootOf(sessions[ret'.conn].credentials), call))
           /\ (ret'.op = "get_token_for_action" /\ ret'.val = "credentials") =>
                \A call \in Calls :
                   get_token_for_action(ret'.ref, UnixSocketOrigin(1000), call) =>
                      Cred_authorize(St, Token_root_credentials(St, tokens[TokenStr(ret'.ref)]),
                                     call)
       ]_vars

\* a token session has just been refused a call that its root credential, a
\* password credential of narrow permissions, does not allow; the session's
\* token was issued by a session of another token, and that token is past
\* its deadline and gone from the registry
C39_Witness ==
    /\ ret.op = "authorize" /\ ret.val = "False"
    /\ HasTokenSession(ret.conn)
    /\ LET parent == creds[tokobjs[SessionToken(ret.conn)].parent_credentials]
       IN /\ parent.kind = "TOKEN"
          /\ ~InRegistry(parent.token)
          /\ PastDeadline(tokobjs[parent.token], now)
    /\ creds[RootOf(sessions[ret.conn].credentials)].kind = "LOGIN_PASSWORD"
    /\ creds[RootOf(sessions[ret.conn].credentials)].allow = {"GET /pool"}

====
